---- MODULE Spec2Model ----
(***************************************************************************)
(* Model of the assessment content and scoring pipeline:                   *)
(*   services/generator.py   generate_questions, _normalize_text,          *)
(*                           _create_one (thread pool, dedup set, lock)    *)
(*   services/llm_client.py  generate_question, evaluate_answer            *)
(*   routes/test.py          submit_section (scoring loop)                 *)
(*                                                                         *)
(* Python values are tagged records; text is a sequence of one-character   *)
(* strings so that lower-casing, stripping, punctuation removal and        *)
(* whitespace collapsing are computed as the code computes them.           *)
(***************************************************************************)
EXTENDS Integers, Sequences, FiniteSets, TLC

(***************************************************************************)
(* Python values                                                           *)
(***************************************************************************)
NoneV == [t |-> "none"]
RaiseV == [t |-> "raise"]
Str(s) == [t |-> "str", s |-> s]
IntV(n) == [t |-> "int", n |-> n]
\* a float, in thousandths
FloatV(milli) == [t |-> "float", milli |-> milli]
ListV(xs) == [t |-> "list", xs |-> xs]
DictV(kv) == [t |-> "dict", kv |-> kv]
BoolV(b) == [t |-> "bool", b |-> b]

\* F(v) with v evaluated once before F is applied (call by value, as in Python)
Eager(F(_), v) == CHOOSE r \in {F(x) : x \in {v}} : TRUE
Eager2(F(_, _), v, w) == CHOOSE r \in {F(x, y) : x \in {v}, y \in {w}} : TRUE
Eager3(F(_, _, _), u, v, w) ==
    CHOOSE r \in {F(x, y, z) : x \in {u}, y \in {v}, z \in {w}} : TRUE

IsStr(v) == v.t = "str"

\* bool(v): None, False, "", 0, 0.0, [] and {} are falsy
Truthy(v) ==
    \E x \in {v} :
        CASE x.t = "none" -> FALSE
          [] x.t = "str" -> Len(x.s) > 0
          [] x.t = "int" -> x.n # 0
          [] x.t = "float" -> x.milli # 0
          [] x.t = "list" -> Len(x.xs) > 0
          [] x.t = "dict" -> Len(x.kv) > 0
          [] x.t = "bool" -> x.b
          [] OTHER -> TRUE

\* a or b
PyOr(a, b) == Eager(LAMBDA x : IF Truthy(x) THEN x ELSE b, a)

\* d.get(k, default) on a dict kept as an ordered sequence of <<key, value>>
PyGetD(d, k, default) ==
    Eager(LAMBDA kv : LET hits == {i \in 1..Len(kv) : kv[i][1] = k}
                      IN IF hits = {} THEN default
                         ELSE kv[CHOOSE i \in hits : \A j \in hits : j <= i][2],
          d.kv)

\* d.get(k)
PyGet(d, k) == PyGetD(d, k, NoneV)

(***************************************************************************)
(* Characters and text                                                     *)
(***************************************************************************)
UpperCase == <<"A","B","C","D","E","F","G","H","I","J","K","L","M",
               "N","O","P","Q","R","S","T","U","V","W","X","Y","Z">>
LowerCase == <<"a","b","c","d","e","f","g","h","i","j","k","l","m",
               "n","o","p","q","r","s","t","u","v","w","x","y","z">>
Digits == <<"0","1","2","3","4","5","6","7","8","9">>

Range(f) == {f[i] : i \in DOMAIN f}

IsSpace(c) == c \in {" ", "\t"}
\* \w of the re module: letters, digits, underscore
IsWord(c) == c \in Range(UpperCase) \cup Range(LowerCase) \cup Range(Digits) \cup {"_"}

LowerChar(c) ==
    IF c \in Range(UpperCase)
    THEN LowerCase[CHOOSE i \in DOMAIN UpperCase : UpperCase[i] = c]
    ELSE c

\* str.lower()
Lower(s) == [i \in DOMAIN s |-> LowerChar(s[i])]

RECURSIVE LStrip(_)
LStrip(s) == IF s # <<>> /\ IsSpace(Head(s)) THEN LStrip(Tail(s)) ELSE s

RECURSIVE RStrip(_)
RStrip(s) ==
    IF s # <<>> /\ IsSpace(s[Len(s)]) THEN RStrip(SubSeq(s, 1, Len(s) - 1)) ELSE s

\* str.strip()
Strip(s) == Eager(RStrip, Eager(LStrip, s))

\* re.sub(r"[^\w\s]", "", s)
RemovePunct(s) == SelectSeq(s, LAMBDA c : IsWord(c) \/ IsSpace(c))

\* re.sub(r"\s+", " ", s): every maximal run of whitespace becomes one space
CollapseSpace(s) ==
    Eager(LAMBDA kept : [i \in DOMAIN kept |-> IF IsSpace(kept[i][1]) THEN " " ELSE kept[i][1]],
          SelectSeq([i \in DOMAIN s |-> <<s[i], i > 1 /\ IsSpace(s[i - 1])>>],
                    LAMBDA m : ~(IsSpace(m[1]) /\ m[2])))

\* decimal digits of a non-negative integer
RECURSIVE NatChars(_)
NatChars(n) ==
    IF n < 10 THEN <<Digits[n + 1]>> ELSE NatChars(n \div 10) \o <<Digits[(n % 10) + 1]>>

IntChars(n) == IF n < 0 THEN <<"-">> \o NatChars(0 - n) ELSE NatChars(n)

\* repr of a float given in thousandths: 2.5, 0.333, 7.0
FloatChars(milli) ==
    LET a == IF milli < 0 THEN 0 - milli ELSE milli
        f == a % 1000
        frac == IF f = 0 THEN <<"0">>
                ELSE IF f % 100 = 0 THEN NatChars(f \div 100)
                ELSE IF f % 10 = 0 THEN (IF f < 100 THEN <<"0">> ELSE <<>>) \o NatChars(f \div 10)
                ELSE (IF f < 10 THEN <<"0", "0">> ELSE IF f < 100 THEN <<"0">> ELSE <<>>)
                     \o NatChars(f)
    IN (IF milli < 0 THEN <<"-">> ELSE <<>>) \o NatChars(a \div 1000) \o <<".">> \o frac

\* sep.join(parts) for a sequence of texts
RECURSIVE JoinText(_, _)
JoinText(parts, sep) ==
    IF parts = <<>> THEN <<>>
    ELSE IF Len(parts) = 1 THEN parts[1]
    ELSE parts[1] \o sep \o JoinText(Tail(parts), sep)

\* repr(v) and str(v)
RECURSIVE PyRepr(_)
PyRepr(v) ==
    CASE v.t = "none" -> <<"N","o","n","e">>
      [] v.t = "str" -> <<"'">> \o v.s \o <<"'">>
      [] v.t = "int" -> IntChars(v.n)
      [] v.t = "float" -> FloatChars(v.milli)
      [] v.t = "bool" -> IF v.b THEN <<"T","r","u","e">> ELSE <<"F","a","l","s","e">>
      [] v.t = "list" ->
            <<"[">> \o JoinText([i \in DOMAIN v.xs |-> PyRepr(v.xs[i])], <<",", " ">>) \o <<"]">>
      [] v.t = "dict" ->
            <<"{">> \o JoinText([i \in DOMAIN v.kv |->
                          <<"'">> \o v.kv[i][1] \o <<"'", ":", " ">> \o PyRepr(v.kv[i][2])],
                        <<",", " ">>) \o <<"}">>
      [] OTHER -> <<"?">>

PyStr(v) == Eager(LAMBDA x : IF IsStr(x) THEN x.s ELSE PyRepr(x), v)

(***************************************************************************)
(* Field names and question types, as text                                 *)
(***************************************************************************)
K_prompt == <<"p","r","o","m","p","t">>
K_type == <<"t","y","p","e">>
K_question == <<"q","u","e","s","t","i","o","n">>
K_options == <<"o","p","t","i","o","n","s">>
K_answer == <<"a","n","s","w","e","r">>
K_correct_answer == <<"c","o","r","r","e","c","t","_","a","n","s","w","e","r">>
K_prompt_text == <<"p","r","o","m","p","t","_","t","e","x","t">>
K_expected_keywords == <<"e","x","p","e","c","t","e","d","_","k","e","y","w","o","r","d","s">>
K_rubric == <<"r","u","b","r","i","c">>
K_input_spec == <<"i","n","p","u","t","_","s","p","e","c">>
K_output_spec == <<"o","u","t","p","u","t","_","s","p","e","c">>
K_examples == <<"e","x","a","m","p","l","e","s">>
K_suggested_time_seconds == <<"s","u","g","g","e","s","t","e","d","_","t","i","m","e","_",
                              "s","e","c","o","n","d","s">>

T_mcq == <<"m","c","q">>
T_coding == <<"c","o","d","i","n","g">>
T_audio == <<"a","u","d","i","o">>
T_video == <<"v","i","d","e","o">>
T_essay == <<"e","s","s","a","y">>

(***************************************************************************)
(* services/llm_client.py: generate_question                               *)
(*                                                                         *)
(* A response of the remote service is                                     *)
(*   [kind |-> "neterr"]   the POST raised a RequestException (timeout)    *)
(*   [kind |-> "http"]     status code other than 200                      *)
(*   [kind |-> "nojson"]   200, but no JSON could be extracted             *)
(*   [kind |-> "json", parsed |-> v]   200 and the extracted JSON value v  *)
(***************************************************************************)
\* x[:80] raises TypeError unless x is a str or a list
Sliceable(v) == v.t \in {"str", "list"}

\* lines 119-158: field normalisation per question type; the f-string of each
\* logger.debug call is evaluated eagerly and slices the question text
NormalizeOutput(qtype, parsed) ==
    IF parsed.t # "dict" THEN
        \* parsed.get on a list raises AttributeError; other types are returned as parsed
        IF qtype \in {T_mcq, T_coding, T_audio, T_video} THEN RaiseV ELSE parsed
    ELSE IF qtype = T_mcq THEN
        LET q == PyOr(PyOr(PyGet(parsed, K_prompt), PyGet(parsed, K_question)),
                      PyGet(parsed, K_prompt_text))
        IN IF ~Sliceable(q) THEN RaiseV
           ELSE DictV(<< <<K_question, q>>,
                         <<K_options, PyGetD(parsed, K_options, ListV(<<>>))>>,
                         <<K_correct_answer,
                           PyOr(PyGet(parsed, K_answer), PyGet(parsed, K_correct_answer))>> >>)
    ELSE IF qtype = T_coding THEN
        LET q == PyOr(PyGet(parsed, K_prompt), PyGet(parsed, K_question))
        IN IF ~Sliceable(q) THEN RaiseV
           ELSE DictV(<< <<K_question, q>>,
                         <<K_input_spec, PyGet(parsed, K_input_spec)>>,
                         <<K_output_spec, PyGet(parsed, K_output_spec)>>,
                         <<K_examples, PyGetD(parsed, K_examples, ListV(<<>>))>> >>)
    ELSE IF qtype = T_audio THEN
        LET q == PyOr(PyGet(parsed, K_prompt_text), PyGet(parsed, K_prompt))
        IN IF ~Sliceable(q) THEN RaiseV
           ELSE DictV(<< <<K_prompt_text, q>>,
                         <<K_expected_keywords, PyGetD(parsed, K_expected_keywords, ListV(<<>>))>>,
                         <<K_rubric, PyGet(parsed, K_rubric)>> >>)
    ELSE IF qtype = T_video THEN
        LET q == PyOr(PyGet(parsed, K_prompt_text), PyGet(parsed, K_prompt))
        IN IF ~Sliceable(q) THEN RaiseV
           ELSE DictV(<< <<K_prompt_text, q>>,
                         <<K_rubric, PyGet(parsed, K_rubric)>>,
                         <<K_suggested_time_seconds,
                           PyGetD(parsed, K_suggested_time_seconds, IntV(60))>> >>)
    ELSE parsed

\* generate_question(skill, difficulty, qtype, options): None, an exception
\* (RaiseV) or the normalised content
generate_question(qtype, resp) ==
    IF resp.kind \in {"neterr", "http", "nojson"} THEN NoneV
    ELSE NormalizeOutput(qtype, resp.parsed)

(***************************************************************************)
(* services/generator.py: helpers of _create_one                           *)
(***************************************************************************)
\* _normalize_text(val)
_normalize_text(val) ==
    IF ~Truthy(val) THEN <<>>
    ELSE Eager(CollapseSpace, Eager(RemovePunct, Eager(Strip, Eager(Lower, PyStr(val)))))

\* lines 59-66: the deterministic fallback content of a (skill, type)
FallbackContent(name, qtype) ==
    IF qtype = T_audio THEN
        DictV(<< <<K_prompt_text,
                   Str(<<"D","e","s","c","r","i","b","e"," ","a"," ","s","i","t","u","a","t",
                         "i","o","n"," ","w","h","e","r","e"," ","y","o","u"," ","u","s","e",
                         "d"," ">> \o PyStr(name)
                       \o <<" ","e","f","f","e","c","t","i","v","e","l","y",".">>)>>,
                 <<K_type, Str(T_audio)>> >>)
    ELSE IF qtype = T_video THEN
        DictV(<< <<K_prompt_text,
                   Str(<<"R","e","c","o","r","d"," ","a"," ","s","h","o","r","t"," ","v","i",
                         "d","e","o"," ","e","x","p","l","a","i","n","i","n","g"," ","a"," ">>
                       \o PyStr(name)
                       \o <<"-","r","e","l","a","t","e","d"," ","c","h","a","l","l","e","n",
                            "g","e"," ","y","o","u"," ","s","o","l","v","e","d",".">>)>>,
                 <<K_type, Str(T_video)>> >>)
    ELSE
        DictV(<< <<K_prompt,
                   Str(<<"G","e","n","e","r","a","t","e"," ","a"," ","q","u","e","s","t","i",
                         "o","n"," ","f","o","r"," ">> \o PyStr(name))>>,
                 <<K_type, Str(qtype)>> >>)

\* " ".join(x): needs an iterable of str, else TypeError (RaiseV)
SpaceJoin(x) ==
    CASE x.t = "list" ->
            IF \A i \in DOMAIN x.xs : IsStr(x.xs[i])
            THEN Str(JoinText([i \in DOMAIN x.xs |-> x.xs[i].s], <<" ">>))
            ELSE RaiseV
      [] x.t = "str" -> Str(JoinText([i \in DOMAIN x.s |-> <<x.s[i]>>], <<" ">>))
      [] x.t = "dict" -> Str(JoinText([i \in DOMAIN x.kv |-> x.kv[i][1]], <<" ">>))
      [] OTHER -> RaiseV

\* the representative text without options and specs
BuildRep_stemonly(qtype, q_data) ==
    IF q_data.t # "dict" THEN Str(PyStr(q_data))
    ELSE PyOr(PyOr(PyOr(PyGet(q_data, K_question), PyGet(q_data, K_prompt_text)),
                   PyGet(q_data, K_prompt)), Str(PyStr(q_data)))

\* lines 68-83: the representative text of a candidate; RaiseV when the join raises
BuildRep(qtype, q_data) ==
    IF q_data.t # "dict" THEN Str(PyStr(q_data))
    ELSE IF qtype = T_mcq THEN
        LET q_text == PyOr(PyOr(PyOr(PyGet(q_data, K_question), PyGet(q_data, K_prompt)),
                                PyGet(q_data, K_prompt_text)), Str(<<>>))
            opts == SpaceJoin(PyOr(PyGetD(q_data, K_options, ListV(<<>>)), ListV(<<>>)))
        IN IF opts.t = "raise" THEN RaiseV
           ELSE Str(Strip(PyStr(q_text) \o <<" ">> \o opts.s))
    ELSE IF qtype = T_coding THEN
        LET q_text == PyOr(PyOr(PyGet(q_data, K_question), PyGet(q_data, K_prompt)), Str(<<>>))
            input_spec == PyOr(PyGetD(q_data, K_input_spec, Str(<<>>)), Str(<<>>))
            output_spec == PyOr(PyGetD(q_data, K_output_spec, Str(<<>>)), Str(<<>>))
        IN Str(Strip(PyStr(q_text) \o <<" ">> \o PyStr(input_spec) \o <<" ">>
                     \o PyStr(output_spec)))
    ELSE
        PyOr(PyOr(PyOr(PyGet(q_data, K_question), PyGet(q_data, K_prompt_text)),
                  PyGet(q_data, K_prompt)), Str(PyStr(q_data)))

\* line 107: the uniqueness tag, from the six hex digits drawn
VariantSuffix(hex) == <<" ","(","v","a","r","i","a","n","t"," ">> \o hex \o <<")">>

\* line 106: base = last_rep or f"{qtype} question about {name}"
ForceBase(last_rep, name, qtype) ==
    PyOr(last_rep, Str(qtype \o <<" ","q","u","e","s","t","i","o","n"," ","a","b","o","u","t"," ">>
                       \o PyStr(name)))

\* lines 108-111: the content of a forced variant
ForceContent(base, suffix, name, qtype) ==
    IF IsStr(base)
    THEN DictV(<< <<K_prompt, Str(base.s \o suffix)>>, <<K_type, Str(qtype)>> >>)
    ELSE DictV(<< <<K_prompt,
                    Str(qtype \o <<" ","q","u","e","s","t","i","o","n"," ","a","b","o","u","t"," ">>
                        \o PyStr(name) \o suffix)>>,
                  <<K_type, Str(qtype)>> >>)

\* line 115: base + suffix raises TypeError unless base is a str
ForceText(base, suffix) == IF IsStr(base) THEN Str(base.s \o suffix) ELSE RaiseV

(***************************************************************************)
(* services/generator.py: flattening of the request (lines 14-34)          *)
(***************************************************************************)
K_name == <<"n","a","m","e">>
K_counts == <<"c","o","u","n","t","s">>

IsDigit(c) == c \in Range(Digits)
DigitVal(c) == (CHOOSE i \in DOMAIN Digits : Digits[i] = c) - 1

RECURSIVE DigitsVal(_)
DigitsVal(s) == IF s = <<>> THEN 0 ELSE 10 * DigitsVal(SubSeq(s, 1, Len(s) - 1)) + DigitVal(s[Len(s)])

\* int(num): [ok |-> FALSE] stands for the exception (TypeError, ValueError)
PyInt(v) ==
    CASE v.t = "int" -> [ok |-> TRUE, n |-> v.n]
      [] v.t = "float" ->
            [ok |-> TRUE,
             n |-> IF v.milli >= 0 THEN v.milli \div 1000 ELSE 0 - ((0 - v.milli) \div 1000)]
      [] v.t = "str" ->
            LET body == Strip(v.s)
                signed == body # <<>> /\ Head(body) \in {"+", "-"}
                digs == IF signed THEN Tail(body) ELSE body
            IN IF digs # <<>> /\ \A i \in DOMAIN digs : IsDigit(digs[i])
               THEN [ok |-> TRUE,
                     n |-> IF signed /\ Head(body) = "-" THEN 0 - DigitsVal(digs)
                           ELSE DigitsVal(digs)]
               ELSE [ok |-> FALSE, n |-> 0]
      [] OTHER -> [ok |-> FALSE, n |-> 0]

\* a count that int() rejects makes one task
CountOf_one(v) == IF PyInt(v).ok THEN PyInt(v).n ELSE 1

\* lines 26-29: try: num = int(num) except Exception: num = 0
CountOf(v) == IF PyInt(v).ok THEN PyInt(v).n ELSE 0

Max(a, b) == IF a >= b THEN a ELSE b
Min(a, b) == IF a <= b THEN a ELSE b

\* lines 30-31: for _ in range(max(0, num)): tasks.append(...)
RepeatTask(task, n) == [i \in 1..Max(0, n) |-> task]

\* lines 25-31: the tasks of one skill, over counts.items()
RECURSIVE TasksOfCounts(_, _)
TasksOfCounts(name, kv) ==
    IF kv = <<>> THEN <<>>
    ELSE RepeatTask([name |-> name, qtype |-> kv[1][1]], CountOf(kv[1][2]))
         \o TasksOfCounts(name, Tail(kv))

\* lines 19-31: the flat task list of the request
RECURSIVE FlattenSkills(_)
FlattenSkills(skills) ==
    IF skills = <<>> THEN <<>>
    ELSE LET skill == Head(skills)
             name == PyGet(skill, K_name)
             counts == PyOr(PyGetD(skill, K_counts, DictV(<<>>)), DictV(<<>>))
         IN (IF ~Truthy(name) THEN <<>> ELSE TasksOfCounts(name, counts.kv))
            \o FlattenSkills(Tail(skills))

(***************************************************************************)
(* Inputs of a generation run: the request and the answers the remote      *)
(* service can give during the run                                         *)
(***************************************************************************)
Skill(name, counts) == DictV(<< <<K_name, name>>, <<K_counts, DictV(counts)>> >>)

N_sql == Str(<<"S","Q","L">>)
N_go == Str(<<"G","o">>)
N_c == Str(<<"C">>)

Stem == Str(<<"W","h","a","t","?">>)
Opts1 == ListV(<<Str(<<"o","n","e">>), Str(<<"t","w","o">>)>>)
Opts2 == ListV(<<Str(<<"r","e","d">>), Str(<<"t","w","o">>)>>)
\* Opts1 again, in another case and with punctuation
Opts3 == ListV(<<Str(<<"O","n","e",".">>), Str(<<"T","W","O">>)>>)
\* options that are not strings
OptsInt == ListV(<<IntV(1), IntV(2)>>)

R_neterr == [kind |-> "neterr"]
R_http == [kind |-> "http"]
R_nojson == [kind |-> "nojson"]
R_json(v) == [kind |-> "json", parsed |-> v]
R_mcq(stem, opts) ==
    R_json(DictV(<< <<K_prompt, stem>>, <<K_options, opts>>,
                    <<K_answer, Str(<<"A">>)>> >>))
R_coding(stem, ins, outs) ==
    R_json(DictV(<< <<K_prompt, stem>>, <<K_input_spec, ins>>, <<K_output_spec, outs>> >>))
R_audio(text) == R_json(DictV(<< <<K_prompt_text, text>> >>))

\* the number of distinct six-digit hex tags uuid4 can draw in the model
NSuffix == 2
HexTag(i) == <<"a","0","0","0","0">> \o NatChars(i % 10)
Suffixes == {HexTag(i) : i \in 1..NSuffix}

\* bounds of the requests drawn
MaxCount == 2
NPool == 9

Opts4 == ListV(<<Str(<<"u","p">>)>>)

\* count values of every shape: integers, floats (in thousandths), strings, None, a list
CountValues ==
    {IntV(n) : n \in (0 - 1)..MaxCount}
    \cup {FloatV(2700), FloatV(500), FloatV(0 - 1500), Str(<<"2">>), Str(<<" ","1"," ">>),
          Str(<<"+","1">>), Str(<<"-","1">>), Str(<<"x">>), Str(<<"1",".","5">>),
          Str(<<>>), NoneV, ListV(<<IntV(1)>>)}

\* skill names: present, empty, None, zero, and a number
NameValues == {N_sql, Str(<<>>), NoneV, IntV(0), IntV(7)}

FlattenPayloads ==
    {<<Skill(n, << <<T_mcq, c>> >>)>> : n \in NameValues, c \in CountValues}
    \cup {<<Skill(N_go, << <<T_audio, c>>, <<T_video, IntV(1)>> >>),
            Skill(n, << <<T_audio, IntV(1)>> >>)>> : n \in {N_go, NoneV}, c \in {IntV(0), FloatV(1500)}}
    \cup {<<>>,
          <<DictV(<< <<K_counts, DictV(<< <<T_mcq, IntV(1)>> >>)>> >>)>>,
          <<DictV(<< <<K_name, N_c>> >>)>>,
          <<DictV(<< <<K_name, N_c>>, <<K_counts, NoneV>> >>)>>}

CoreScenarios ==
    { \* every call fails: duplicate-prone fallback content
      [payload |-> <<Skill(N_sql, << <<T_mcq, IntV(3)>> >>)>>, remote |-> {R_neterr}],
      \* same stem, different option lists
      [payload |-> <<Skill(N_sql, << <<T_mcq, IntV(2)>> >>)>>,
       remote |-> {R_mcq(Stem, Opts1), R_mcq(Stem, Opts3)}],
      \* content of unexpected shape, mixed with failures
      [payload |-> <<Skill(N_sql, << <<T_mcq, IntV(2)>> >>)>>,
       remote |-> {R_http, R_mcq(Stem, OptsInt)}],
      [payload |-> <<Skill(N_go, << <<T_audio, IntV(2)>> >>)>>,
       remote |-> {R_nojson, R_audio(ListV(<<Str(<<"?">>)>>))}],
      [payload |-> <<Skill(N_go, << <<T_audio, IntV(1)>>, <<T_essay, IntV(1)>> >>)>>,
       remote |-> {R_audio(Str(<<>>)), R_json(ListV(<<>>))}],
      \* empty and punctuation-only texts
      [payload |-> <<Skill(N_c, << <<T_mcq, IntV(1)>>, <<T_coding, IntV(1)>> >>)>>,
       remote |-> {R_mcq(Str(<<>>), ListV(<<>>)), R_mcq(Str(<<"?">>), ListV(<<>>))}],
      \* same coding stem, different specs
      [payload |-> <<Skill(N_c, << <<T_coding, IntV(2)>> >>)>>,
       remote |-> {R_coding(Stem, Str(<<"i","n">>), Str(<<"o","u","t">>)),
                   R_coding(Stem, Str(<<"i","n">>), NoneV),
                   R_coding(Stem, Str(<<"I","n",":">>), Str(<<"O","u","t">>))}]
    }

Scenarios ==
    CoreScenarios
    \cup { \* three tasks, three option lists for one stem
           [payload |-> <<Skill(N_sql, << <<T_mcq, IntV(3)>> >>)>>,
            remote |-> {R_mcq(Stem, Opts1), R_mcq(Stem, Opts2), R_mcq(Stem, Opts4)}],
           \* more tasks than the pool has workers
           [payload |-> <<Skill(N_sql, << <<T_mcq, IntV(NPool)>> >>)>>,
            remote |-> {R_mcq(Stem, OptsInt)}] }
    \cup {[payload |-> p, remote |-> {R_neterr}] : p \in FlattenPayloads}
    \cup { \* every call fails, for two types of one skill and for two spellings of it
           [payload |-> <<Skill(N_c, << <<T_mcq, IntV(2)>>, <<T_coding, IntV(1)>> >>)>>,
            remote |-> {R_http, R_nojson}],
           [payload |-> <<Skill(N_c, << <<T_audio, IntV(2)>> >>),
                          Skill(Str(<<"c","+","+">>), << <<T_audio, IntV(1)>> >>)>>,
            remote |-> {R_neterr}] }

(***************************************************************************)
(* routes/test.py: field names and feedback texts of submit_section        *)
(***************************************************************************)
K_score == <<"s","c","o","r","e">>
K_feedback == <<"f","e","e","d","b","a","c","k">>
K_is_correct == <<"i","s","_","c","o","r","r","e","c","t">>
K_raw == <<"r","a","w">>
K_question_id == <<"q","u","e","s","t","i","o","n","_","i","d">>
K_question_type == <<"q","u","e","s","t","i","o","n","_","t","y","p","e">>
K_question_text == <<"q","u","e","s","t","i","o","n","_","t","e","x","t">>
K_candidate_answer == <<"c","a","n","d","i","d","a","t","e","_","a","n","s","w","e","r">>
K_response == <<"r","e","s","p","o","n","s","e">>
K_candidate_response == <<"c","a","n","d","i","d","a","t","e","_","r","e","s","p","o","n","s","e">>
K_transcript == <<"t","r","a","n","s","c","r","i","p","t">>
K_text == <<"t","e","x","t">>
K_duration_seconds == <<"d","u","r","a","t","i","o","n","_","s","e","c","o","n","d","s">>
K_duration == <<"d","u","r","a","t","i","o","n">>
K_keywords == <<"k","e","y","w","o","r","d","s">>
K_suggested_time == <<"s","u","g","g","e","s","t","e","d","_","t","i","m","e">>
K_positive_marking == <<"p","o","s","i","t","i","v","e","_","m","a","r","k","i","n","g">>
K_negative_marking == <<"n","e","g","a","t","i","v","e","_","m","a","r","k","i","n","g">>
K_content == <<"c","o","n","t","e","n","t">>
K_q_text == <<"q","_","t","e","x","t">>

F_evaluation_failed == <<"E","v","a","l","u","a","t","i","o","n"," ","f","a","i","l","e","d">>
F_av_failed == <<"A","u","d","i","o","/","v","i","d","e","o"," ","e","v","a","l","u","a","t",
                 "i","o","n"," ","f","a","i","l","e","d">>
F_not_evaluated == <<"N","o","t"," ","e","v","a","l","u","a","t","e","d">>
F_all_present == <<"A","l","l"," ","e","x","p","e","c","t","e","d"," ","k","e","y","w","o",
                   "r","d","s"," ","p","r","e","s","e","n","t">>
F_found == <<"F","o","u","n","d"," ">>
F_keywords_missing == <<" ","k","e","y","w","o","r","d","s","."," ","M","i","s","s","i","n",
                        "g",":"," ">>
N_A == <<"N","/","A">>

(***************************************************************************)
(* Text and number conversions used by the scoring loop                    *)
(***************************************************************************)
UpperChar(c) ==
    IF c \in Range(LowerCase)
    THEN UpperCase[CHOOSE i \in DOMAIN LowerCase : LowerCase[i] = c]
    ELSE c

\* str.upper()
Upper(s) == [i \in DOMAIN s |-> UpperChar(s[i])]

\* needle in hay, for two texts
Contains(hay, needle) ==
    \E i \in 0..(Len(hay) - Len(needle)) : SubSeq(hay, i + 1, i + Len(needle)) = needle

\* s.split(",")
RECURSIVE SplitComma(_)
SplitComma(s) ==
    LET hits == {i \in DOMAIN s : s[i] = ","}
    IN IF hits = {} THEN <<s>>
       ELSE LET n == CHOOSE i \in hits : \A j \in hits : i <= j
            IN <<SubSeq(s, 1, n - 1)>> \o SplitComma(SubSeq(s, n + 1, Len(s)))

\* the float a decimal literal stands for, the literal being stripped
DecimalText(body) ==
    LET signed == body # <<>> /\ Head(body) \in {"+", "-"}
        num == IF signed THEN Tail(body) ELSE body
        dots == {i \in DOMAIN num : num[i] = "."}
        dot == IF dots = {} THEN Len(num) + 1
               ELSE CHOOSE i \in dots : \A j \in dots : i <= j
        whole == SubSeq(num, 1, dot - 1)
        frac == SubSeq(num, dot + 1, Len(num))
        pad == frac \o SubSeq(<<"0", "0", "0">>, 1, 3 - Len(frac))
        mag == 1000 * DigitsVal(whole) + DigitsVal(pad)
    IN IF /\ Cardinality(dots) <= 1
          /\ Len(whole) + Len(frac) > 0
          /\ Len(frac) <= 3
          /\ \A i \in DOMAIN whole : IsDigit(whole[i])
          /\ \A i \in DOMAIN frac : IsDigit(frac[i])
       THEN [ok |-> TRUE, milli |-> IF signed /\ Head(body) = "-" THEN 0 - mag ELSE mag]
       ELSE [ok |-> FALSE, milli |-> 0]

\* float(v): [ok |-> FALSE] stands for the exception (TypeError, ValueError).
\* A text is read as a decimal literal with an optional sign; literals with an
\* exponent, "inf", "nan" or more than three fraction digits are outside the
\* inputs of the model.
PyFloat(v) ==
    CASE v.t = "int" -> [ok |-> TRUE, milli |-> 1000 * v.n]
      [] v.t = "float" -> [ok |-> TRUE, milli |-> v.milli]
      [] v.t = "bool" -> [ok |-> TRUE, milli |-> IF v.b THEN 1000 ELSE 0]
      [] v.t = "str" -> Eager(DecimalText, Strip(v.s))
      [] OTHER -> [ok |-> FALSE, milli |-> 0]

\* round(n / d) for d > 0: the nearest integer. round(x, 3) of a float x kept as
\* a fraction is RoundDiv of its thousandths. On an exact tie the binary expansion
\* of the float decides in Python; the inputs of the model produce no tie, and
\* the even neighbour stands for it here.
RoundDiv(n, d) ==
    LET q == n \div d
        r == n % d
    IN IF 2 * r > d \/ (2 * r = d /\ q % 2 = 1) THEN q + 1 ELSE q

(***************************************************************************)
(* JSON texts: json.dumps / JSON.stringify and json.loads                  *)
(***************************************************************************)
RECURSIVE JsonText(_)
JsonText(v) ==
    CASE v.t = "none" -> <<"n","u","l","l">>
      [] v.t = "bool" -> IF v.b THEN <<"t","r","u","e">> ELSE <<"f","a","l","s","e">>
      [] v.t = "str" -> <<"\"">> \o v.s \o <<"\"">>
      [] v.t = "int" -> IntChars(v.n)
      [] v.t = "float" -> FloatChars(v.milli)
      [] v.t = "list" ->
            <<"[">> \o JoinText([i \in DOMAIN v.xs |-> JsonText(v.xs[i])], <<",">>) \o <<"]">>
      [] v.t = "dict" ->
            <<"{">> \o JoinText([i \in DOMAIN v.kv |->
                          <<"\"">> \o v.kv[i][1] \o <<"\"", ":">> \o JsonText(v.kv[i][2])],
                        <<",">>) \o <<"}">>
      [] OTHER -> <<"?">>

\* whitespace outside string literals means nothing to json.loads
JsonSquash(s) ==
    LET quotesBefore(i) == Cardinality({j \in 1..(i - 1) : s[j] = "\""})
        marked == [i \in DOMAIN s |-> <<s[i], IsSpace(s[i]) /\ quotesBefore(i) % 2 = 0>>]
        kept == SelectSeq(marked, LAMBDA m : ~m[2])
    IN [i \in DOMAIN kept |-> kept[i][1]]

(***************************************************************************)
(* Vocabulary of the scoring inputs, and the JSON values json.loads can    *)
(* meet in them                                                            *)
(***************************************************************************)
W_sql == <<"s","q","l">>
W_join == <<"j","o","i","n">>
Tr_full == <<"S","Q","L"," ","j","o","i","n">>
Tr_half == <<"a"," ","j","o","i","n">>
Tr_none == <<"h","m">>
Kw_both == ListV(<<Str(W_sql), Str(W_join)>>)
Kw_list == <<"s","q","l",","," ","j","o","i","n">>

AnswerObject(transcript, duration) ==
    DictV(<< <<K_transcript, transcript>>, <<K_duration, duration>> >>)
CorrectObject(kws, st) ==
    DictV(<< <<K_expected_keywords, kws>>, <<K_suggested_time_seconds, st>> >>)

W_index == <<"i","n","d","e","x">>
Kw_three == ListV(<<Str(W_sql), Str(W_join), Str(W_index)>>)
Kw_blank == ListV(<<Str(W_sql), Str(<<>>)>>)
Kw_na == ListV(<<Str(N_A)>>)

\* answers as objects: the suggested time being 60, the durations 30 and "45"
\* are inside the window, 100 and 200 outside of it
AnswerObjects ==
    {AnswerObject(Str(Tr_full), IntV(30)), AnswerObject(Str(Tr_full), IntV(100)),
     AnswerObject(Str(Tr_half), IntV(30)), AnswerObject(Str(Tr_half), IntV(200)),
     AnswerObject(Str(Tr_half), NoneV), AnswerObject(IntV(7), NoneV),
     AnswerObject(Str(Tr_none), Str(<<"4","5">>))}

CorrectObjects ==
    {CorrectObject(Kw_both, IntV(60)), CorrectObject(Kw_both, NoneV),
     CorrectObject(ListV(<<>>), NoneV), CorrectObject(Kw_blank, IntV(60)),
     CorrectObject(Kw_both, IntV(0)), CorrectObject(Kw_three, IntV(0 - 60)),
     CorrectObject(Kw_na, NoneV)}

\* the JSON values the remote service wraps in prose
X_seven == DictV(<< <<K_score, IntV(7)>> >>)
X_three == DictV(<< <<K_score, IntV(3)>> >>)
X_empty == DictV(<<>>)
X_nested == DictV(<< <<K_raw, X_seven>> >>)
X_list == ListV(<<IntV(7)>>)
ExtractValues == {X_seven, X_three, X_empty, X_nested, X_list}

JsonValues ==
    {AnswerObject(Str(Tr_full), IntV(30)), AnswerObject(Str(Tr_half), IntV(100)),
     AnswerObject(IntV(7), NoneV), CorrectObject(Kw_both, IntV(60)),
     CorrectObject(ListV(<<>>), NoneV), Kw_both, ListV(<<Str(N_A)>>)}
    \cup {IntV(n) : n \in 0..9}
    \cup AnswerObjects \cup CorrectObjects \cup ExtractValues

\* json.loads(s): the value whose JSON text s is, RaiseV when s is no JSON text
JsonLoads(s) ==
    LET hits == {v \in JsonValues : JsonText(v) = JsonSquash(s)}
    IN IF hits = {} THEN RaiseV ELSE CHOOSE v \in hits : TRUE

(***************************************************************************)
(* services/llm_client.py: _extract_json_from_text                         *)
(***************************************************************************)
\* lines 47, 54: str.startswith, str.endswith of one character
StartsWith(s, c) == s # <<>> /\ s[1] = c
EndsWith(s, c) == s # <<>> /\ s[Len(s)] = c

\* line 54: re.search(r"(\{.*\})", text, re.DOTALL), the span from the first
\* "{" to the last "}" behind it, NoneV when there is none
BraceMatch(s) ==
    LET opens == {i \in DOMAIN s : s[i] = "{"}
    IN IF opens = {} THEN NoneV
       ELSE \* the leftmost start; "." matches greedily up to the last "}"
            LET first == CHOOSE i \in opens : \A k \in opens : i <= k
                closes == {j \in DOMAIN s : s[j] = "}" /\ j > first}
            IN IF closes = {} THEN NoneV
               ELSE Str(SubSeq(s, first, CHOOSE j \in closes : \A k \in closes : k <= j))

\* lines 40-61
_extract_json_from_text(text) ==
    IF ~Truthy(text) THEN NoneV
    ELSE Eager(LAMBDA t :
           Eager(LAMBDA quick :
               IF quick # RaiseV THEN quick
               ELSE Eager(LAMBDA match :
                        IF match = NoneV THEN NoneV
                        ELSE Eager(LAMBDA v : IF v = RaiseV THEN NoneV ELSE v,
                                   JsonLoads(match.s)),
                        BraceMatch(t)),
               IF \/ StartsWith(t, "{") /\ EndsWith(t, "}")
                  \/ StartsWith(t, "[") /\ EndsWith(t, "]")
               THEN JsonLoads(t) ELSE RaiseV),
           Strip(text.s))

(***************************************************************************)
(* services/llm_client.py: evaluate_answer                                 *)
(*                                                                         *)
(* A response of the remote evaluator is                                   *)
(*   [kind |-> "neterr"]    the POST raised (line 227)                     *)
(*   [kind |-> "http"]      non-2xx: raise_for_status raised (line 228)    *)
(*   [kind |-> "badbody"]   the body is no chat completion (lines 229-236) *)
(*   [kind |-> "nojson", content |-> text]   no JSON in the content        *)
(*   [kind |-> "json", parsed |-> v]         the extracted JSON value v    *)
(***************************************************************************)
evaluate_answer(question_type, resp) ==
    IF question_type \notin {T_mcq, T_coding, T_audio, T_video} THEN RaiseV
    ELSE IF resp.kind \in {"neterr", "http", "badbody"} THEN RaiseV
    ELSE IF resp.kind = "nojson" THEN DictV(<< <<K_raw, Str(resp.content)>> >>)
    ELSE resp.parsed

(***************************************************************************)
(* routes/test.py: submit_section, the audio/video heuristic               *)
(***************************************************************************)
\* lines 954-955, 961-962
AnswerFields(d) ==
    [transcript |-> PyOr(PyOr(PyGet(d, K_transcript), PyGet(d, K_text)), Str(<<>>)),
     duration |-> PyOr(PyGet(d, K_duration_seconds), PyGet(d, K_duration))]

\* lines 964, 966: str(answer or "")
PlainAnswer(answer) == [transcript |-> Str(PyStr(PyOr(answer, Str(<<>>)))), duration |-> NoneV]

\* an extraction that never reads a text as JSON
ExtractAnswer_textonly(answer) ==
    IF answer.t = "dict" THEN AnswerFields(answer) ELSE PlainAnswer(answer)

\* lines 951-966
ExtractAnswer(answer) ==
    IF answer.t = "dict" THEN AnswerFields(answer)
    ELSE LET parsed == IF IsStr(answer) THEN JsonLoads(answer.s) ELSE NoneV
         IN IF parsed.t = "dict" THEN AnswerFields(parsed) ELSE PlainAnswer(answer)

\* lines 968-969, 1010: (s or "").lower(), AttributeError on a value that is no text
_clean(s) ==
    Eager(LAMBDA x : IF IsStr(x) THEN Str(Lower(x.s)) ELSE RaiseV, PyOr(s, Str(<<>>)))

\* lines 977-978, 985-986
KeywordFields(d) ==
    [kws |-> PyOr(PyOr(PyGet(d, K_expected_keywords), PyGet(d, K_keywords)), ListV(<<>>)),
     st |-> PyOr(PyGet(d, K_suggested_time_seconds), PyGet(d, K_suggested_time))]

NoKeywords == [kws |-> ListV(<<>>), st |-> NoneV]

\* line 991: [k.strip() for k in correct.split(",") if k.strip()]
CommaKeywords(s) ==
    LET parts == SplitComma(s)
        stripped == [i \in DOMAIN parts |-> Strip(parts[i])]
        kept == SelectSeq(stripped, LAMBDA k : k # <<>>)
    IN ListV([i \in DOMAIN kept |-> Str(kept[i])])

\* lines 981-991: correct is a text
KeywordsOfText(correct) ==
    LET parsed_c == JsonLoads(correct.s)
    IN IF parsed_c = RaiseV THEN [kws |-> CommaKeywords(correct.s), st |-> NoneV]
       ELSE IF parsed_c.t = "dict" THEN KeywordFields(parsed_c)
       ELSE IF parsed_c.t = "list" THEN [kws |-> parsed_c, st |-> NoneV]
       ELSE NoKeywords

\* lines 994-1004: a meta entry that is no dict raises at its first .get, which
\* leaves both values as they were
MetaFallback(found, correct, meta_entry) ==
    Eager2(LAMBDA was, meta :
              IF meta.t # "dict" THEN was
              ELSE [kws |-> IF /\ \/ ~Truthy(was.kws)
                                  \/ was.kws = ListV(<<Str(N_A)>>)
                                  \/ (IsStr(correct) /\ Upper(Strip(correct.s)) = N_A)
                               /\ Truthy(KeywordFields(meta).kws)
                            THEN KeywordFields(meta).kws
                            ELSE was.kws,
                    st |-> IF Truthy(was.st) THEN was.st
                           ELSE PyOr(PyOr(PyGet(meta, K_suggested_time_seconds),
                                          PyGet(meta, K_suggested_time)),
                                     PyGet(meta, K_suggested_time_seconds))],
           found, PyOr(meta_entry, DictV(<<>>)))

\* lines 974-1004
ResolveKeywords(correct, meta_entry) ==
    IF correct.t = "dict" THEN KeywordFields(correct)
    ELSE MetaFallback(IF IsStr(correct) THEN KeywordsOfText(correct) ELSE NoKeywords,
                      correct, meta_entry)

\* what a for loop or len() accepts; a number, a bool or None raises TypeError
Iterable(v) == v.t \in {"list", "str", "dict"}

Items(v) ==
    CASE v.t = "list" -> v.xs
      [] v.t = "str" -> [i \in DOMAIN v.s |-> Str(<<v.s[i]>>)]
      [] v.t = "dict" -> [i \in DOMAIN v.kv |-> Str(v.kv[i][1])]
      [] OTHER -> <<>>

\* lines 1007-1014: the number of keywords found in the transcript
Matches(items, transcript_clean) ==
    Cardinality({i \in DOMAIN items :
                    /\ _clean(items[i]).s # <<>>
                    /\ Contains(transcript_clean.s, _clean(items[i]).s)})

NoTime == [has |-> FALSE, num |-> 0, den |-> 1]

Abs(n) == IF n < 0 THEN 0 - n ELSE n

\* the greatest common divisor of two naturals, not both 0
RECURSIVE Gcd(_, _)
Gcd(a, b) == IF b = 0 THEN a ELSE Gcd(b, a % b)

\* the fraction num/den, den > 0, in lowest terms
Fraction(num, den) ==
    Eager(LAMBDA g : [has |-> TRUE, num |-> num \div g, den |-> den \div g], Gcd(num, den))

\* a time score without the penalty outside the window
TimeScore_flat(duration, st) ==
    IF duration = NoneV \/ st = NoneV THEN NoTime
    ELSE IF PyFloat(duration).ok /\ PyFloat(st).ok THEN Fraction(1, 1)
    ELSE NoTime

\* lines 1019-1033: the time score as the fraction num/den in lowest terms, or none
TimeScore(duration, st) ==
    IF duration = NoneV \/ st = NoneV THEN NoTime
    ELSE Eager2(LAMBDA dur, stf :
                   IF ~dur.ok \/ ~stf.ok THEN NoTime
                   ELSE IF 5 * stf.milli <= 10 * dur.milli /\ 10 * dur.milli <= 15 * stf.milli
                        THEN [has |-> TRUE, num |-> 1, den |-> 1]
                   \* ZeroDivisionError, caught at line 1032
                   ELSE IF stf.milli = 0 THEN NoTime
                   ELSE IF stf.milli > 0
                        THEN Fraction(Max(0, stf.milli - Abs(dur.milli - stf.milli)),
                                      stf.milli)
                   ELSE Fraction(Abs(stf.milli) + Abs(dur.milli - stf.milli), Abs(stf.milli)),
                PyFloat(duration), PyFloat(st))

\* a combination that gives the keywords the whole weight when there is no time
Combined_inflated(qtype, matches, total, time_score) ==
    IF qtype = T_audio \/ ~time_score.has THEN [num |-> matches, den |-> total]
    ELSE [num |-> 8 * matches * time_score.den + 2 * time_score.num * total,
          den |-> 10 * total * time_score.den]

\* lines 1036-1043: the combined score as the fraction num/den
Combined(qtype, matches, total, time_score) ==
    IF qtype = T_audio THEN [num |-> matches, den |-> total]
    ELSE IF ~time_score.has THEN [num |-> 8 * matches, den |-> 10 * total]
    ELSE [num |-> 8 * matches * time_score.den + 2 * time_score.num * total,
          den |-> 10 * total * time_score.den]

\* lines 1049-1053
Feedback(matches, total, missing) ==
    IF matches = total THEN F_all_present
    ELSE F_found \o IntChars(matches) \o <<"/">> \o IntChars(total) \o F_keywords_missing
         \o JoinText(missing, <<",", " ">>)

FailedAV ==
    DictV(<< <<K_score, IntV(0)>>, <<K_feedback, Str(F_av_failed)>>,
             <<K_is_correct, BoolV(FALSE)>> >>)

\* line 1048: the keywords that are not in the transcript
Missing(items, transcript_clean) ==
    Eager(LAMBDA at : [j \in DOMAIN at |-> items[at[j]].s],
          SelectSeq([i \in DOMAIN items |-> i],
                    LAMBDA i : ~Contains(transcript_clean.s, Lower(items[i].s))))

\* lines 1006-1043: matches, total, time_score and combined, the transcript and
\* the keywords being texts
KeywordLocals(qtype, transcript_clean, items, time_score) ==
    Eager2(LAMBDA matches, total :
              [matches |-> matches, total |-> total, time_score |-> time_score,
               combined |-> Combined(qtype, matches, total, time_score)],
           Matches(items, transcript_clean), Max(1, Len(items)))

\* lines 949-1047: the local variables of the heuristic when it has run; raised
\* tells that an exception ended it at line 1056
HeuristicLocals(qtype, answer, correct, meta_entry) ==
    Eager3(LAMBDA a, found, c :
              Eager3(LAMBDA transcript_clean, items, st :
                        IF \/ transcript_clean = RaiseV
                           \/ ~Iterable(found.kws)
                           \* line 1010 raises on a truthy keyword that is no text,
                           \* line 1048 on any keyword that is no text
                           \/ \E i \in DOMAIN items :
                                 _clean(items[i]) = RaiseV \/ ~IsStr(items[i])
                        THEN [raised |-> TRUE, transcript |-> a.transcript,
                              duration |-> a.duration, expected_keywords |-> found.kws,
                              st |-> st]
                        ELSE Eager(LAMBDA k :
                                      [raised |-> FALSE, transcript |-> a.transcript,
                                       duration |-> a.duration,
                                       expected_keywords |-> found.kws, st |-> st,
                                       transcript_clean |-> transcript_clean,
                                       items |-> items, matches |-> k.matches,
                                       total |-> k.total, time_score |-> k.time_score,
                                       combined |-> k.combined],
                                   KeywordLocals(qtype, transcript_clean, items,
                                                 TimeScore(a.duration, st))),
                     _clean(a.transcript),
                     Items(found.kws),
                     IF found.st # NoneV THEN found.st
                     ELSE IF c.t = "dict" THEN PyGet(c, K_suggested_time_seconds)
                     ELSE NoneV),
           ExtractAnswer(answer), ResolveKeywords(correct, meta_entry), correct)

\* an evaluation that is correct only above 0.6
KeywordEvaluation_strict(h) ==
    DictV(<< <<K_score, FloatV(RoundDiv(1000 * h.combined.num, h.combined.den))>>,
             <<K_feedback,
               Str(Feedback(h.matches, h.total, Missing(h.items, h.transcript_clean)))>>,
             <<K_is_correct, BoolV(10 * h.combined.num > 6 * h.combined.den)>> >>)

\* lines 1006-1055: the evaluation built from the locals h of the heuristic
KeywordEvaluation(h) ==
    DictV(<< <<K_score, FloatV(RoundDiv(1000 * h.combined.num, h.combined.den))>>,
             <<K_feedback,
               Str(Feedback(h.matches, h.total, Missing(h.items, h.transcript_clean)))>>,
             <<K_is_correct, BoolV(10 * h.combined.num >= 6 * h.combined.den)>> >>)

\* lines 949-1057: the evaluation of an audio or video response
HeuristicEvaluation(qtype, answer, correct, meta_entry) ==
    Eager(LAMBDA h : IF h.raised THEN FailedAV ELSE KeywordEvaluation(h),
          HeuristicLocals(qtype, answer, correct, meta_entry))

(***************************************************************************)
(* routes/test.py: submit_section, question metadata, marks and records    *)
(***************************************************************************)
\* d[k] = v
SetKey(d, k, v) ==
    IF \E i \in DOMAIN d.kv : d.kv[i][1] = k
    THEN DictV([i \in DOMAIN d.kv |-> IF d.kv[i][1] = k THEN <<k, v>> ELSE d.kv[i]])
    ELSE DictV(Append(d.kv, <<k, v>>))

\* content[k] = raw_json.get(k) when that is not None; the assignment raises on
\* a content that is no dict (a list takes integer indices only) and is skipped
MergeMarking(content, raw_json, k) ==
    IF PyGet(raw_json, k) # NoneV /\ content.t = "dict"
    THEN SetKey(content, k, PyGet(raw_json, k))
    ELSE content

\* lines 898-915: the metadata kept for one row; the rows hold decoded JSON
MetaContent(raw) ==
    LET raw_json == IF IsStr(raw) /\ JsonLoads(raw.s) # RaiseV THEN JsonLoads(raw.s) ELSE raw
    IN IF raw_json.t = "dict"
       THEN MergeMarking(MergeMarking(PyOr(PyGet(raw_json, K_content), DictV(<<>>)),
                                      raw_json, K_positive_marking),
                         raw_json, K_negative_marking)
       ELSE DictV(<<>>)

\* lines 894-916
RECURSIVE BuildMeta(_)
BuildMeta(rs) ==
    IF rs = <<>> THEN DictV(<<>>)
    ELSE LET last == rs[Len(rs)]
         IN SetKey(BuildMeta(SubSeq(rs, 1, Len(rs) - 1)), PyStr(last[1]), MetaContent(last[2]))

\* lines 1062-1069: positive_marking as a float, None when absent or unreadable
PosMark(meta_entry) ==
    Eager(LAMBDA meta :
             IF meta.t # "dict" THEN NoneV
             ELSE IF PyGet(meta, K_positive_marking) = NoneV THEN NoneV
             ELSE Eager(LAMBDA f : IF f.ok THEN FloatV(f.milli) ELSE NoneV,
                        PyFloat(PyGet(meta, K_positive_marking))),
          PyOr(meta_entry, DictV(<<>>)))

\* a normalization that scales coding like audio and video, without the tenth
NormalizeMarks_undivided(qtype, evaluation, pos_mark) ==
    LET raw_score == PyGet(evaluation, K_score)
        raw_f == PyFloat(raw_score)
    IN IF raw_score = NoneV THEN evaluation
       ELSE IF pos_mark # NoneV /\ qtype = T_mcq
            THEN SetKey(evaluation, K_score,
                        IF Truthy(PyGet(evaluation, K_is_correct)) THEN pos_mark ELSE FloatV(0))
       ELSE IF ~raw_f.ok THEN evaluation
       ELSE IF pos_mark = NoneV
            THEN SetKey(evaluation, K_score, FloatV(RoundDiv(raw_f.milli, 1)))
       ELSE SetKey(evaluation, K_score,
                   FloatV(RoundDiv(raw_f.milli * pos_mark.milli, 1000)))

\* a normalization that puts every score on the scale 1 when there is no
\* positive_marking: a coding score is divided by 10
NormalizeMarks_unit(qtype, evaluation, pos_mark) ==
    LET raw_score == PyGet(evaluation, K_score)
        raw_f == PyFloat(raw_score)
    IN IF raw_score = NoneV THEN evaluation
       ELSE IF pos_mark # NoneV /\ qtype = T_mcq
            THEN SetKey(evaluation, K_score,
                        IF Truthy(PyGet(evaluation, K_is_correct)) THEN pos_mark ELSE FloatV(0))
       ELSE IF ~raw_f.ok THEN evaluation
       ELSE IF pos_mark = NoneV
            THEN SetKey(evaluation, K_score,
                        FloatV(RoundDiv(raw_f.milli, IF qtype = T_coding THEN 10 ELSE 1)))
       ELSE IF qtype = T_coding
            THEN SetKey(evaluation, K_score,
                        FloatV(RoundDiv(raw_f.milli * pos_mark.milli, 10000)))
       ELSE SetKey(evaluation, K_score,
                   FloatV(RoundDiv(raw_f.milli * pos_mark.milli, 1000)))

\* lines 1077-1104: the evaluation with its score on the scale of the question
NormalizeMarks(qtype, evaluation, pos_mark) ==
    LET raw_score == PyGet(evaluation, K_score)
        raw_f == PyFloat(raw_score)
    IN IF raw_score = NoneV THEN evaluation
       ELSE IF pos_mark # NoneV /\ qtype = T_mcq
            THEN SetKey(evaluation, K_score,
                        IF Truthy(PyGet(evaluation, K_is_correct)) THEN pos_mark ELSE FloatV(0))
       ELSE IF ~raw_f.ok THEN evaluation
       ELSE IF pos_mark = NoneV
            THEN SetKey(evaluation, K_score, FloatV(RoundDiv(raw_f.milli, 1)))
       ELSE IF qtype = T_coding
            THEN SetKey(evaluation, K_score,
                        FloatV(RoundDiv(raw_f.milli * pos_mark.milli, 10000)))
       ELSE SetKey(evaluation, K_score,
                   FloatV(RoundDiv(raw_f.milli * pos_mark.milli, 1000)))

\* line 945
FailedEvaluation ==
    DictV(<< <<K_score, IntV(0)>>, <<K_feedback, Str(F_evaluation_failed)>>,
             <<K_is_correct, BoolV(FALSE)>> >>)

\* an evaluation of the score 0 for the other question types
NotEvaluated_zero ==
    DictV(<< <<K_score, IntV(0)>>, <<K_feedback, Str(F_not_evaluated)>>,
             <<K_is_correct, BoolV(FALSE)>> >>)

\* line 1060
NotEvaluated ==
    DictV(<< <<K_score, NoneV>>, <<K_feedback, Str(F_not_evaluated)>>,
             <<K_is_correct, BoolV(FALSE)>> >>)

\* lines 931-934
AnswerOf(r) ==
    IF Truthy(PyGet(r, K_candidate_answer)) THEN PyGet(r, K_candidate_answer)
    ELSE PyOr(PyOr(PyOr(PyGet(r, K_answer), PyGet(r, K_response)),
                   PyGet(r, K_candidate_response)),
              PyGet(r, K_transcript))

\* whether the loop calls the remote evaluator for r (line 936)
CallsEvaluator(r) == r.t = "dict" /\ PyGet(r, K_question_type) \in {Str(T_mcq), Str(T_coding)}

NoCall == [kind |-> "nocall"]

\* lines 936-1060: the evaluation of response r, resp being what the remote
\* evaluator answers if it is called
Evaluation(r, resp, meta) ==
    LET qtype == PyGet(r, K_question_type)
    IN IF qtype \in {Str(T_mcq), Str(T_coding)}
       THEN LET e == evaluate_answer(qtype.s, resp)
            IN IF e = RaiseV THEN FailedEvaluation ELSE e
       ELSE IF qtype \in {Str(T_audio), Str(T_video)}
       THEN HeuristicEvaluation(qtype.s, AnswerOf(r), PyGet(r, K_correct_answer),
                                PyGet(meta, PyStr(PyGet(r, K_question_id))))
       ELSE NotEvaluated

\* lines 1117-1126
QuestionText(qtext, meta, qid) ==
    LET q_meta == IF Truthy(meta) THEN PyGet(meta, PyStr(qid)) ELSE DictV(<<>>)
    IN IF Truthy(qtext) \/ q_meta.t # "dict" THEN qtext
       ELSE PyOr(PyOr(PyGet(q_meta, K_question), PyGet(q_meta, K_prompt_text)),
                 PyGet(q_meta, K_q_text))

\* the question type of r as text (a type that is no text equals none of them)
QuestionType(r) ==
    Eager(LAMBDA qtype : IF IsStr(qtype) THEN qtype.s ELSE <<>>, PyGet(r, K_question_type))

\* the heuristic did not run for the response
NoHeuristic == [raised |-> FALSE, skipped |-> TRUE]

\* lines 936-1060: what the loop body holds for response r before the marks are
\* normalized: the evaluation, and the locals of the heuristic if it ran
LoopLocals(r, resp, meta) ==
    IF r.t # "dict" THEN [evaluation |-> RaiseV, heuristic |-> NoHeuristic]
    ELSE [evaluation |-> Evaluation(r, resp, meta),
          heuristic |-> IF PyGet(r, K_question_type) \in {Str(T_audio), Str(T_video)}
                        THEN HeuristicLocals(QuestionType(r), AnswerOf(r),
                                             PyGet(r, K_correct_answer),
                                             PyGet(meta, PyStr(PyGet(r, K_question_id))))
                        ELSE NoHeuristic]

\* lines 926-1138: the record appended for response r, RaiseV when an exception
\* leaves the loop body (r.get on a response, or evaluation.get on an
\* evaluation, that is no dict)
ScoreResponse(r, resp, meta, section_name) ==
    IF r.t # "dict" THEN RaiseV
    ELSE Eager2(LAMBDA evaluation, pos_mark :
                   IF evaluation.t # "dict" THEN RaiseV
                   ELSE Eager(LAMBDA final :
                                 [question_id |-> PyGet(r, K_question_id),
                                  question |-> QuestionText(PyGet(r, K_question_text), meta,
                                                            PyGet(r, K_question_id)),
                                  candidate_answer |-> AnswerOf(r),
                                  correct_answer |-> PyGet(r, K_correct_answer),
                                  section_name |-> section_name,
                                  score |-> PyGet(final, K_score),
                                  is_correct |-> PyGet(final, K_is_correct),
                                  feedback |-> PyGet(final, K_feedback),
                                  positive_marking |-> pos_mark],
                              NormalizeMarks(QuestionType(r), evaluation, pos_mark)),
                Evaluation(r, resp, meta),
                PosMark(PyGet(meta, PyStr(PyGet(r, K_question_id)))))

(***************************************************************************)
(* Submissions: the request, the stored questions, what the remote         *)
(* evaluator may answer and what the database may do                       *)
(***************************************************************************)
E_neterr == [kind |-> "neterr"]
E_http == [kind |-> "http"]
E_badbody == [kind |-> "badbody"]
E_nojson == [kind |-> "nojson", content |-> <<"C","o","r","r","e","c","t",".">>]
E_json(v) == [kind |-> "json", parsed |-> v]

Fb_ok == Str(<<"o","k">>)
Ev_right ==
    DictV(<< <<K_is_correct, BoolV(TRUE)>>, <<K_score, IntV(1)>>, <<K_feedback, Fb_ok>> >>)
Ev_wrong ==
    DictV(<< <<K_is_correct, BoolV(FALSE)>>, <<K_score, IntV(0)>>, <<K_feedback, Fb_ok>> >>)
Ev_seven == DictV(<< <<K_score, IntV(7)>>, <<K_feedback, Fb_ok>> >>)
Ev_array == ListV(<<Ev_right>>)

Response(qid, qtype, qtext, correct, answer) ==
    DictV(<< <<K_question_id, qid>>, <<K_question_type, Str(qtype)>>,
             <<K_question_text, qtext>>, <<K_correct_answer, correct>>,
             <<K_candidate_answer, answer>> >>)

\* a row of the questions table: <<id, decoded JSON>>
Row(qid, content, marking) ==
    <<IntV(qid), DictV(<< <<K_content, content>>, <<K_positive_marking, marking>> >>)>>

Q_text == Stem
A_text == Str(<<"B">>)
Section == Str(<<"S","1">>)
AudioMeta == DictV(<< <<K_prompt_text, Q_text>>, <<K_expected_keywords, Kw_both>> >>)
VideoMeta == DictV(<< <<K_prompt_text, Q_text>>, <<K_keywords, Kw_both>>,
                      <<K_suggested_time_seconds, IntV(60)>> >>)
PlainMeta == DictV(<< <<K_question, Q_text>> >>)

Request(ok, responses) == [ids_ok |-> ok, section_name |-> Section, responses |-> responses]

RemoteSubmission ==
    [data |-> Request(TRUE, <<Response(IntV(1), T_mcq, Q_text, A_text, A_text),
                              Response(IntV(2), T_coding, Q_text, A_text, Str(W_join)),
                              Response(IntV(3), T_mcq, NoneV, A_text, Str(W_sql))>>),
     rows |-> <<Row(1, PlainMeta, IntV(5)), Row(2, PlainMeta, Str(<<"1","0">>)),
                Row(3, PlainMeta, NoneV)>>,
     evaluator |-> {E_neterr, E_http, E_badbody, E_nojson, E_json(Ev_right), E_json(Ev_seven)},
     db |-> {"ok", "fail"}]

SpokenSubmission ==
    [data |-> Request(TRUE,
        <<Response(IntV(4), T_audio, Q_text, CorrectObject(Kw_both, NoneV),
                   AnswerObject(Str(Tr_full), NoneV)),
          Response(IntV(5), T_video, Q_text, Str(N_A),
                   Str(JsonText(AnswerObject(Str(Tr_half), IntV(100))))),
          Response(IntV(6), T_audio, Q_text, Str(Kw_list), AnswerObject(IntV(7), NoneV)),
          Response(IntV(5), T_video, NoneV, NoneV, Str(Tr_none)),
          Response(IntV(4), T_audio, Q_text, CorrectObject(ListV(<<IntV(1)>>), NoneV),
                   Str(Tr_full))>>),
     rows |-> <<Row(4, AudioMeta, IntV(2)), Row(5, VideoMeta, FloatV(1200)),
                Row(6, Str(Tr_none), IntV(1))>>,
     evaluator |-> {},
     db |-> {"ok"}]

ArraySubmission ==
    [data |-> Request(TRUE, <<Response(IntV(1), T_mcq, Q_text, A_text, A_text),
                              Response(IntV(3), T_mcq, Q_text, A_text, A_text)>>),
     rows |-> <<Row(1, PlainMeta, IntV(5))>>,
     evaluator |-> {E_json(Ev_array), E_json(Ev_wrong)},
     db |-> {"ok"}]

OtherSubmission ==
    [data |-> Request(TRUE, <<Response(IntV(1), T_essay, Q_text, A_text, A_text),
                              Response(IntV(3), T_mcq, Q_text, A_text, NoneV),
                              Q_text,
                              Response(IntV(1), T_mcq, Q_text, A_text, A_text)>>),
     rows |-> <<Row(1, PlainMeta, IntV(5))>>,
     evaluator |-> {E_json(Ev_right), E_neterr},
     db |-> {"ok"}]

\* responses whose question_type is absent, written in capitals, a number
\* and an unknown word, then one of a known type
UntypedSubmission ==
    [data |-> Request(TRUE,
        <<DictV(<< <<K_question_id, IntV(1)>>, <<K_candidate_answer, A_text>> >>),
          Response(IntV(1), Upper(T_mcq), Q_text, A_text, A_text),
          DictV(<< <<K_question_id, IntV(4)>>, <<K_question_type, IntV(7)>>,
                   <<K_candidate_answer, Str(Tr_full)>> >>),
          Response(IntV(4), T_essay, Q_text, CorrectObject(Kw_both, IntV(60)),
                   AnswerObject(Str(Tr_full), IntV(30))),
          Response(IntV(1), T_mcq, Q_text, A_text, A_text)>>),
     rows |-> <<Row(1, PlainMeta, IntV(5)), Row(4, VideoMeta, FloatV(1200))>>,
     evaluator |-> {E_json(Ev_right), E_json(Ev_wrong), E_neterr},
     db |-> {"ok"}]

\* the same responses at several positions, between responses of other types
SilentAudio == Response(IntV(6), T_audio, NoneV, NoneV, NoneV)
TimedVideo ==
    Response(IntV(5), T_video, Q_text, CorrectObject(Kw_both, IntV(60)),
             AnswerObject(Str(Tr_full), IntV(30)))
RepeatSubmission ==
    [data |-> Request(TRUE,
        <<SilentAudio, TimedVideo, SilentAudio,
          Response(IntV(7), T_essay, Q_text, A_text, A_text),
          Response(IntV(1), T_mcq, Q_text, A_text, A_text),
          TimedVideo,
          Response(IntV(7), T_essay, Q_text, A_text, A_text)>>),
     rows |-> <<Row(5, VideoMeta, FloatV(1200)), Row(6, PlainMeta, NoneV),
                Row(1, PlainMeta, IntV(5))>>,
     evaluator |-> {E_json(Ev_right), E_neterr},
     db |-> {"ok"}]

Submissions ==
    {RemoteSubmission, SpokenSubmission, ArraySubmission, OtherSubmission, UntypedSubmission,
     RepeatSubmission,
     [RemoteSubmission EXCEPT !.data = Request(FALSE, <<>>)]}

\* the answers and the correct answers the heuristic is given
HeurAnswers ==
    AnswerObjects \cup {Str(Tr_full), Str(Tr_none), NoneV, IntV(7), Str(<<"7">>)}

HeurCorrects ==
    CorrectObjects
    \cup {CorrectObject(ListV(<<>>), IntV(60)), CorrectObject(ListV(<<>>), IntV(0 - 60))}
    \cup {Str(N_A), Str(Kw_list), NoneV, Str(JsonText(CorrectObject(Kw_both, IntV(60)))),
          Str(JsonText(CorrectObject(ListV(<<>>), NoneV))), Str(JsonText(Kw_na)),
          Str(JsonText(Kw_both))}

\* one audio or video response; an answer that is an object is sent a second
\* time as its JSON text
HeurSubmissions ==
    {[data |-> Request(TRUE,
                       IF a.t = "dict"
                       THEN <<Response(IntV(4), qtype, Q_text, c, a),
                              Response(IntV(4), qtype, Q_text, c, Str(JsonText(a)))>>
                       ELSE <<Response(IntV(4), qtype, Q_text, c, a)>>),
      rows |-> <<Row(4, m, pm)>>,
      evaluator |-> {},
      db |-> {"ok"}] :
        qtype \in {T_audio, T_video}, a \in HeurAnswers, c \in HeurCorrects,
        m \in {PlainMeta, AudioMeta, VideoMeta}, pm \in {NoneV, FloatV(1200)}}

Ev_noscore == DictV(<< <<K_is_correct, BoolV(TRUE)>>, <<K_feedback, Fb_ok>> >>)
Ev_ten == DictV(<< <<K_score, IntV(10)>>, <<K_feedback, Fb_ok>> >>)
Ev_text == DictV(<< <<K_score, Str(<<"7">>)>>, <<K_feedback, Fb_ok>> >>)
Ev_fraction == DictV(<< <<K_score, FloatV(3334)>>, <<K_feedback, Fb_ok>> >>)
Ev_worded == DictV(<< <<K_score, Str(N_A)>>, <<K_feedback, Fb_ok>> >>)
\* scores outside the scale the evaluator was asked for
Ev_twelve == DictV(<< <<K_score, IntV(12)>>, <<K_feedback, Fb_ok>>, <<K_is_correct, BoolV(TRUE)>> >>)
Ev_minus == DictV(<< <<K_score, IntV(0 - 1)>>, <<K_feedback, Fb_ok>> >>)

\* one mcq or coding response, over the positive_marking of its question and
\* the outputs of the remote evaluator
MarkSubmissions ==
    {[data |-> Request(TRUE, <<Response(IntV(1), qtype, Q_text, A_text, A_text)>>),
      rows |-> <<Row(1, PlainMeta, pm)>>,
      evaluator |-> {E_neterr, E_nojson, E_json(Ev_right), E_json(Ev_wrong),
                     E_json(Ev_seven), E_json(Ev_noscore), E_json(Ev_ten), E_json(Ev_text),
                     E_json(Ev_fraction), E_json(Ev_worded), E_json(Ev_twelve),
                     E_json(Ev_minus)},
      db |-> {"ok"}] :
        qtype \in {T_mcq, T_coding},
        pm \in {NoneV, IntV(5), IntV(10), IntV(4), FloatV(1200), Str(<<"1","0">>), Str(N_A)}}

GradingSubmissions == HeurSubmissions \cup MarkSubmissions

(***************************************************************************)
(* services/generator.py: generate_questions as a state machine            *)
(*                                                                         *)
(* pc        position of the calling thread: "start", "submit", "collect", *)
(*           "done"                                                        *)
(* tpc[t]    position of task t: "new" (not submitted), "queued", "loop"   *)
(*           (line 52), "lock" (waiting at line 90), "check" (line 91,     *)
(*           lock held), "insert" (line 94, lock held), "flock" (waiting   *)
(*           at line 114), "fadd" (line 115, lock held), "accepted"        *)
(*           (returned at line 97), "forced" (returned at line 117),       *)
(*           "raised" (an exception left _create_one)                      *)
(* calls and last_call record the calls of generate_question a task made   *)
(* and how the latest one ended; the list results is kept as the set of    *)
(* the tasks whose question was appended (its order is not specified).     *)
(***************************************************************************)
VARIABLES payload, remote, pc, tasks, nsub, tpc, attempts, last_rep, q_data, norm,
          last_call, calls, seen_texts, seen_lock, ret, collected, results,
          data, rows, evaluator, db, spc, question_meta, idx, drawn, loop_locals,
          results_out, results_data,
          raw_text, parsed, xpc,
          candidate_test_taken, handled,
          runs

genVars == <<payload, remote, pc, tasks, nsub, tpc, attempts, last_rep, q_data, norm,
             last_call, calls, seen_texts, seen_lock, ret, collected, results>>

scoreVars == <<data, rows, evaluator, db, spc, question_meta, idx, drawn, loop_locals,
               results_out, results_data>>

\* the state of one call of _extract_json_from_text
extractVars == <<raw_text, parsed, xpc>>

\* the table candidate_test_taken and the requests handled so far
gateVars == <<candidate_test_taken, handled>>

otherVars == <<extractVars, gateVars, runs>>

vars == <<genVars, scoreVars, otherVars>>

taskVars == <<tpc, attempts, last_rep, q_data, norm, last_call, calls, ret>>

\* line 52: while attempts < 5
MaxAttempts == 5
\* line 126: min(8, len(tasks))
PoolCap == 8

TaskIds == 1..Len(tasks)

\* _extract_json_from_text is not being called
ExtractIdle ==
    /\ raw_text = NoneV
    /\ parsed = NoneV
    /\ xpc = "idle"

\* no test was started or completed
GateIdle ==
    /\ candidate_test_taken = {}
    /\ handled = <<>>

\* generate_questions is not being called twice
RunsIdle == runs = <<>>

OtherIdle == ExtractIdle /\ GateIdle /\ RunsIdle

\* no request is being scored
ScoreIdle ==
    /\ data = [ids_ok |-> TRUE, section_name |-> NoneV, responses |-> <<>>]
    /\ rows = <<>>
    /\ evaluator = {}
    /\ db = {}
    /\ spc = "idle"
    /\ question_meta = DictV(<<>>)
    /\ idx = 0
    /\ drawn = <<>>
    /\ loop_locals = <<>>
    /\ results_out = <<>>
    /\ results_data = <<>>

\* no call of generate_questions is running
GenIdle ==
    /\ payload = <<>>
    /\ remote = {}
    /\ pc = "idle"
    /\ tasks = <<>>
    /\ nsub = 0
    /\ tpc = <<>>
    /\ attempts = <<>>
    /\ last_rep = <<>>
    /\ q_data = <<>>
    /\ norm = <<>>
    /\ last_call = <<>>
    /\ calls = <<>>
    /\ seen_texts = {}
    /\ seen_lock = 0
    /\ ret = <<>>
    /\ collected = {}
    /\ results = {}

InitWith(scenarios) ==
    /\ \E sc \in scenarios : payload = sc.payload /\ remote = sc.remote
    /\ ScoreIdle
    /\ OtherIdle
    /\ pc = "start"
    /\ tasks = <<>>
    /\ nsub = 0
    /\ tpc = <<>>
    /\ attempts = <<>>
    /\ last_rep = <<>>
    /\ q_data = <<>>
    /\ norm = <<>>
    /\ last_call = <<>>
    /\ calls = <<>>
    /\ seen_texts = {}
    /\ seen_lock = 0
    /\ ret = <<>>
    /\ collected = {}
    /\ results = {}

Init == InitWith(Scenarios)

\* lines 14-38: build the task list; an empty list returns [] at once
Flatten ==
    /\ pc = "start"
    /\ tasks' = FlattenSkills(payload)
    /\ pc' = IF tasks' = <<>> THEN "done" ELSE "submit"
    /\ tpc' = [t \in DOMAIN tasks' |-> "new"]
    /\ attempts' = [t \in DOMAIN tasks' |-> 0]
    /\ last_rep' = [t \in DOMAIN tasks' |-> NoneV]
    /\ q_data' = [t \in DOMAIN tasks' |-> NoneV]
    /\ norm' = [t \in DOMAIN tasks' |-> <<>>]
    /\ last_call' = [t \in DOMAIN tasks' |-> "no"]
    /\ calls' = [t \in DOMAIN tasks' |-> 0]
    /\ ret' = [t \in DOMAIN tasks' |-> NoneV]
    /\ UNCHANGED <<scoreVars, otherVars, payload, remote, nsub, seen_texts, seen_lock, collected, results>>

\* a pool as large as the task list
max_workers_unbounded(ntasks) == ntasks

\* line 126
max_workers(ntasks) == Min(PoolCap, ntasks)

\* the tasks a worker thread is executing
InFlight == {t \in TaskIds : tpc[t] \notin {"new", "queued", "accepted", "forced", "raised"}}
Finished == {t \in TaskIds : tpc[t] \in {"accepted", "forced", "raised"}}

\* line 129: ex.submit of the next task, in list order
Submit ==
    /\ pc = "submit"
    /\ nsub' = nsub + 1
    /\ tpc' = [tpc EXCEPT ![nsub + 1] = "queued"]
    /\ pc' = IF nsub + 1 = Len(tasks) THEN "collect" ELSE "submit"
    /\ UNCHANGED <<scoreVars, otherVars, payload, remote, tasks, attempts, last_rep, q_data, norm, last_call,
                   calls, seen_texts, seen_lock, ret, collected, results>>

\* ThreadPoolExecutor: a free worker takes the oldest queued task
Start(t) ==
    /\ tpc[t] = "queued"
    /\ \A u \in TaskIds : tpc[u] = "queued" => t <= u
    /\ Cardinality(InFlight) < max_workers(Len(tasks))
    /\ tpc' = [tpc EXCEPT ![t] = "loop"]
    /\ UNCHANGED <<scoreVars, otherVars, payload, remote, pc, tasks, nsub, attempts, last_rep, q_data, norm,
                   last_call, calls, seen_texts, seen_lock, ret, collected, results>>

\* a single attempt
LoopContinues_once(a) == a < 1

\* one attempt too many
LoopContinues_offbyone(a) == a <= MaxAttempts

\* line 52
LoopContinues(a) == a < MaxAttempts

\* only a None result gives the fallback; an exception of the call propagates
CallResult_uncaught(g, name, qtype) ==
    IF g.t = "none" THEN FallbackContent(name, qtype) ELSE g

\* lines 54-66: an exception of the call and a None result both give the fallback
CallResult(g, name, qtype) ==
    IF g.t \in {"none", "raise"} THEN FallbackContent(name, qtype) ELSE g

\* lines 52-88: one attempt up to the lock: call, fallback, representative text,
\* normalisation
Attempt(t) ==
    /\ tpc[t] = "loop"
    /\ LoopContinues(attempts[t])
    /\ \E resp \in remote :
       \E g \in {generate_question(tasks[t].qtype, resp)} :
       \E qd \in {CallResult(g, tasks[t].name, tasks[t].qtype)} :
       \E rep \in {IF qd.t = "raise" THEN RaiseV ELSE BuildRep(tasks[t].qtype, qd)} :
       \E nm \in {IF rep.t = "raise" THEN <<>> ELSE _normalize_text(rep)} :
           /\ attempts' = [attempts EXCEPT ![t] = @ + 1]
           /\ calls' = [calls EXCEPT ![t] = @ + 1]
           /\ last_call' = [last_call EXCEPT ![t] =
                                IF g.t \in {"none", "raise"} THEN g.t ELSE "ok"]
           /\ q_data' = [q_data EXCEPT ![t] = qd]
           /\ IF rep.t = "raise"
              THEN /\ tpc' = [tpc EXCEPT ![t] = "raised"]
                   /\ UNCHANGED <<last_rep, norm>>
              ELSE /\ last_rep' = [last_rep EXCEPT ![t] = rep]
                   /\ norm' = [norm EXCEPT ![t] = nm]
                   /\ tpc' = [tpc EXCEPT ![t] = IF nm = <<>> THEN "loop" ELSE "lock"]
    /\ UNCHANGED <<scoreVars, otherVars, payload, remote, pc, tasks, nsub, seen_texts, seen_lock, ret,
                   collected, results>>

\* no mutual exclusion: check and insert without the lock
CanAcquire_lockfree(holder) == TRUE

\* threading.Lock: acquire succeeds only when nobody holds the lock
CanAcquire(holder) == holder = 0

\* lines 90 and 114: with seen_lock
Acquire(t) ==
    /\ tpc[t] \in {"lock", "flock"}
    /\ CanAcquire(seen_lock)
    /\ seen_lock' = t
    /\ tpc' = [tpc EXCEPT ![t] = IF tpc[t] = "lock" THEN "check" ELSE "fadd"]
    /\ UNCHANGED <<scoreVars, otherVars, payload, remote, pc, tasks, nsub, attempts, last_rep, q_data, norm,
                   last_call, calls, seen_texts, ret, collected, results>>

\* the lock is kept by a task that found a duplicate
LockAfterDuplicate_kept(t) == t

\* the holder of the lock after `continue` leaves the with block
LockAfterDuplicate(t) == 0

\* lines 91-93: the membership test; a duplicate releases the lock and retries
Check(t) ==
    /\ tpc[t] = "check"
    /\ IF norm[t] \in seen_texts
       THEN /\ seen_lock' = LockAfterDuplicate(t)
            /\ tpc' = [tpc EXCEPT ![t] = "loop"]
       ELSE /\ tpc' = [tpc EXCEPT ![t] = "insert"]
            /\ UNCHANGED seen_lock
    /\ UNCHANGED <<scoreVars, otherVars, payload, remote, pc, tasks, nsub, attempts, last_rep, q_data, norm,
                   last_call, calls, seen_texts, ret, collected, results>>

\* lines 97-103 and 117-123: the returned question (question_id is a fresh uuid)
Question(task, content) == [skill |-> task.name, type |-> task.qtype, content |-> content]

\* lines 94-103: insert, release, return the question
Insert(t) ==
    /\ tpc[t] = "insert"
    /\ seen_texts' = seen_texts \cup {norm[t]}
    /\ seen_lock' = 0
    /\ ret' = [ret EXCEPT ![t] = Question(tasks[t], q_data[t])]
    /\ tpc' = [tpc EXCEPT ![t] = "accepted"]
    /\ UNCHANGED <<scoreVars, otherVars, payload, remote, pc, tasks, nsub, attempts, last_rep, q_data, norm,
                   last_call, calls, collected, results>>

\* lines 105-115 up to the lock: base, suffix, content and the text to record
Force(t) ==
    /\ tpc[t] = "loop"
    /\ ~LoopContinues(attempts[t])
    /\ \E hex \in Suffixes :
       \E base \in {ForceBase(last_rep[t], tasks[t].name, tasks[t].qtype)} :
       \E text \in {ForceText(base, VariantSuffix(hex))} :
           /\ q_data' = [q_data EXCEPT ![t] =
                            ForceContent(base, VariantSuffix(hex), tasks[t].name,
                                         tasks[t].qtype)]
           /\ IF text.t = "raise"
              THEN /\ tpc' = [tpc EXCEPT ![t] = "raised"]
                   /\ UNCHANGED norm
              ELSE /\ tpc' = [tpc EXCEPT ![t] = "flock"]
                   /\ norm' = [norm EXCEPT ![t] = _normalize_text(text)]
    /\ UNCHANGED <<scoreVars, otherVars, payload, remote, pc, tasks, nsub, attempts, last_rep, last_call,
                   calls, seen_texts, seen_lock, ret, collected, results>>

\* lines 115-123: record the variant without a membership test, release, return
ForceAdd(t) ==
    /\ tpc[t] = "fadd"
    /\ seen_texts' = seen_texts \cup {norm[t]}
    /\ seen_lock' = 0
    /\ ret' = [ret EXCEPT ![t] = Question(tasks[t], q_data[t])]
    /\ tpc' = [tpc EXCEPT ![t] = "forced"]
    /\ UNCHANGED <<scoreVars, otherVars, payload, remote, pc, tasks, nsub, attempts, last_rep, q_data, norm,
                   last_call, calls, collected, results>>

\* lines 130-137: as_completed yields a finished future; a raised one is skipped
Collect(t) ==
    /\ pc = "collect"
    /\ t \in Finished
    /\ t \notin collected
    /\ collected' = collected \cup {t}
    /\ results' = IF tpc[t] = "raised" THEN results ELSE results \cup {t}
    /\ UNCHANGED <<scoreVars, otherVars, payload, remote, pc, tasks, nsub, taskVars, seen_texts, seen_lock>>

\* line 139: every future was yielded; the pool is shut down and results returned
Return ==
    /\ pc = "collect"
    /\ collected = TaskIds
    /\ pc' = "done"
    /\ UNCHANGED <<scoreVars, otherVars, payload, remote, tasks, nsub, taskVars, seen_texts, seen_lock,
                   collected, results>>

Next ==
    \/ Flatten
    \/ Submit
    \/ \E t \in TaskIds : Start(t)
    \/ \E t \in TaskIds : Attempt(t)
    \/ \E t \in TaskIds : Acquire(t)
    \/ \E t \in TaskIds : Check(t)
    \/ \E t \in TaskIds : Insert(t)
    \/ \E t \in TaskIds : Force(t)
    \/ \E t \in TaskIds : ForceAdd(t)
    \/ \E t \in TaskIds : Collect(t)
    \/ Return

Spec == Init /\ [][Next]_vars

\* every thread that can take a step eventually takes one
FairSpec == InitWith(CoreScenarios) /\ [][Next]_vars /\ WF_vars(Next)

(***************************************************************************)
(* routes/test.py: submit_section as a state machine                       *)
(*                                                                         *)
(* spc     position of the handler: "idle" (no request), "recv", "loop"    *)
(*         (line 926), "r200", "r400", "r500" (the response sent)          *)
(* idx     number of responses the loop has handled                        *)
(* drawn   what the remote evaluator answered for each handled response    *)
(* loop_locals   what the loop body held for each handled response         *)
(* results_data   the evaluations stored with the test attempt             *)
(***************************************************************************)
ScoreInitFrom(submissions) ==
    /\ \E s \in submissions :
          /\ data = s.data
          /\ rows = s.rows
          /\ evaluator = s.evaluator
          /\ db = s.db
    /\ spc = "recv"
    /\ question_meta = DictV(<<>>)
    /\ idx = 0
    /\ drawn = <<>>
    /\ loop_locals = <<>>
    /\ results_out = <<>>
    /\ results_data = <<>>
    /\ GenIdle
    /\ OtherIdle

ScoreInit == ScoreInitFrom(Submissions)

\* lines 862-918: the ids are required, the question metadata is read
Receive ==
    /\ spc = "recv"
    /\ IF ~data.ids_ok THEN spc' = "r400" /\ UNCHANGED question_meta
       ELSE \E d \in db :
               IF d = "fail" THEN spc' = "r500" /\ UNCHANGED question_meta
               ELSE spc' = "loop" /\ question_meta' = BuildMeta(rows)
    /\ UNCHANGED <<data, rows, evaluator, db, idx, drawn, loop_locals, results_out, results_data,
                   genVars, otherVars>>

\* the loop as it would be if pos_mark were assigned only for a question that
\* has a positive_marking: the value of the iteration before stays in the local
ScoreOne_leaky ==
    /\ spc = "loop"
    /\ idx < Len(data.responses)
    /\ \E r \in {data.responses[idx + 1]} :
       \E resp \in (IF CallsEvaluator(r) THEN evaluator ELSE {NoCall}) :
       \E rec \in {ScoreResponse(r, resp, question_meta, data.section_name)} :
          /\ drawn' = Append(drawn, resp)
          /\ loop_locals' = Append(loop_locals, LoopLocals(r, resp, question_meta))
          /\ idx' = idx + 1
          /\ IF rec = RaiseV THEN spc' = "r500" /\ UNCHANGED results_out
             ELSE /\ results_out' =
                        Append(results_out,
                               IF rec.positive_marking = NoneV /\ results_out # <<>>
                               THEN [rec EXCEPT !.positive_marking =
                                        results_out[Len(results_out)].positive_marking]
                               ELSE rec)
                  /\ UNCHANGED spc
    /\ UNCHANGED <<data, rows, evaluator, db, question_meta, results_data, genVars, otherVars>>

\* lines 926-1138: one iteration of the scoring loop; an exception that leaves
\* the loop body ends the request at lines 1272-1274
ScoreOne ==
    /\ spc = "loop"
    /\ idx < Len(data.responses)
    /\ \E r \in {data.responses[idx + 1]} :
       \E resp \in (IF CallsEvaluator(r) THEN evaluator ELSE {NoCall}) :
       \E rec \in {ScoreResponse(r, resp, question_meta, data.section_name)} :
          /\ drawn' = Append(drawn, resp)
          /\ loop_locals' = Append(loop_locals, LoopLocals(r, resp, question_meta))
          /\ idx' = idx + 1
          /\ IF rec = RaiseV THEN spc' = "r500" /\ UNCHANGED results_out
             ELSE results_out' = Append(results_out, rec) /\ UNCHANGED spc
    /\ UNCHANGED <<data, rows, evaluator, db, question_meta, results_data, genVars, otherVars>>

\* lines 1140-1274: the evaluations are stored and returned
Store ==
    /\ spc = "loop"
    /\ idx = Len(data.responses)
    /\ \E d \in db :
          IF d = "fail" THEN spc' = "r500" /\ UNCHANGED results_data
          ELSE spc' = "r200" /\ results_data' = results_data \o results_out
    /\ UNCHANGED <<data, rows, evaluator, db, question_meta, idx, drawn, loop_locals, results_out,
                   genVars, otherVars>>

ScoreNext == Receive \/ ScoreOne \/ Store

ScoreSpec == ScoreInit /\ [][ScoreNext]_vars

\* the same handler over the inputs of the heuristic and of the mark scale
GradingInit == ScoreInitFrom(GradingSubmissions)

GradingSpec == GradingInit /\ [][ScoreNext]_vars

(***************************************************************************)
(* One call of _extract_json_from_text on a text of the remote service     *)
(*                                                                         *)
(* raw_text the argument                                                   *)
(* parsed   the value returned                                             *)
(* xpc      "called", then "returned"                                      *)
(***************************************************************************)
\* what stands before the JSON text, the JSON text, and what stands behind it
P_none == <<>>
P_prose == <<"S","u","r","e",":"," ">>
P_blank == <<" "," ">>
P_brace == <<"a","{","b"," ">>
B_spaced == <<"{","\"","s","c","o","r","e","\"",":"," ","7","}">>
B_cut == <<"{","\"","s","c","o","r","e","\"",":">>
B_word == <<"g","o","o","d">>
S_none == <<>>
S_prose == <<" ","o","k",".">>
S_blank == <<" ">>
S_brace == <<" ","}">>
S_pair == <<" ","{","}">>
S_second == <<" ">> \o JsonText(X_three)
B_seven == JsonText(X_seven)
B_empty == JsonText(X_empty)
B_nested == JsonText(X_nested)
B_list == JsonText(X_list)

ExtractTexts ==
    {NoneV, Str(<<>>)}
    \cup {Str(p \o b \o x) :
            p \in {P_none, P_prose, P_blank, P_brace},
            b \in {B_seven, B_spaced, B_empty, B_nested, B_list, B_cut, B_word},
            x \in {S_none, S_prose, S_blank, S_brace, S_pair, S_second}}

ExtractInit ==
    /\ raw_text \in ExtractTexts
    /\ parsed = NoneV
    /\ xpc = "called"
    /\ GenIdle
    /\ ScoreIdle
    /\ GateIdle
    /\ RunsIdle

\* lines 40-61: the call returns
Extract ==
    /\ xpc = "called"
    /\ parsed' = _extract_json_from_text(raw_text)
    /\ xpc' = "returned"
    /\ UNCHANGED <<raw_text, genVars, scoreVars, gateVars, runs>>

ExtractNext == Extract

ExtractSpec == ExtractInit /\ [][ExtractNext]_vars

(***************************************************************************)
(* routes/test.py: start_test, save_violations and the end of              *)
(* submit_section over the table candidate_test_taken                      *)
(*                                                                         *)
(* candidate_test_taken   the rows of the table: candidate_id, job_id,     *)
(*                        question_set_id, cid (NoneV is SQL NULL)         *)
(* handled                the requests answered so far, with their status  *)
(* The database answers every statement.                                   *)
(***************************************************************************)
\* lines 596-599, 1235-1238: SELECT 1 ... WHERE (candidate_id = %s OR cid = %s)
\* AND question_set_id = %s; a comparison with NULL is never true
TakenExists(taken, candidate_id, cid, question_set_id) ==
    \E row \in taken :
        /\ \/ row.candidate_id = candidate_id
           \/ cid # NoneV /\ row.cid = cid
        /\ row.question_set_id = question_set_id

\* lines 600-606, 1239-1246: the row is inserted unless one exists
MarkTaken(taken, candidate_id, job_id, question_set_id, cid) ==
    IF TakenExists(taken, candidate_id, cid, question_set_id) THEN taken
    ELSE taken \cup {[candidate_id |-> candidate_id, job_id |-> job_id,
                     question_set_id |-> question_set_id, cid |-> cid]}

\* lines 229-243: the row looked for by start_test, with the job_id when the
\* request carries one
AlreadyTaken(taken, candidate_id, question_set_id, job_id) ==
    \E row \in taken :
        /\ row.candidate_id = candidate_id
        /\ row.question_set_id = question_set_id
        /\ Truthy(job_id) => row.job_id = job_id

\* the identifiers the requests carry
GateCandidates == {Str(<<"u","1">>), Str(<<"u","2">>)}
GateCids == {NoneV, Str(<<"k","1">>)}
GateJobs == {NoneV, Str(<<"j","1">>), Str(<<"j","2">>)}
GateSets == {Str(<<"q","1">>), Str(<<"q","2">>)}
\* the number of requests of a behaviour
MaxRequests == 3

GateInit ==
    /\ candidate_test_taken = {}
    /\ handled = <<>>
    /\ GenIdle
    /\ ScoreIdle
    /\ ExtractIdle
    /\ RunsIdle

\* lines 219-250 and 296: GET /test/start/<question_set_id>
start_test ==
    /\ Len(handled) < MaxRequests
    /\ \E arg_candidate \in GateCandidates \cup {NoneV}, arg_cid \in GateCids,
          job_id \in GateJobs, question_set_id \in GateSets :
          LET candidate_id == PyOr(arg_candidate, arg_cid)
              refused == /\ Truthy(candidate_id)
                         /\ AlreadyTaken(candidate_test_taken, candidate_id,
                                         question_set_id, job_id)
          IN handled' = Append(handled,
                 [op |-> "start_test", candidate_id |-> arg_candidate, cid |-> arg_cid,
                  job_id |-> job_id, question_set_id |-> question_set_id,
                  mark_complete |-> FALSE,
                  status |-> IF refused THEN 403 ELSE 200,
                  questions |-> ~refused])
    /\ UNCHANGED <<candidate_test_taken, genVars, scoreVars, extractVars, runs>>

\* lines 489-616: POST /test/save_violations
save_violations ==
    /\ Len(handled) < MaxRequests
    /\ \E candidate_id \in GateCandidates \cup {NoneV}, cid \in GateCids,
          job_id \in GateJobs, question_set_id \in GateSets :
          IF ~Truthy(candidate_id)
          THEN /\ handled' = Append(handled,
                     [op |-> "save_violations", candidate_id |-> candidate_id, cid |-> cid,
                      job_id |-> job_id, question_set_id |-> question_set_id,
                      mark_complete |-> FALSE, status |-> 400, questions |-> FALSE])
               /\ UNCHANGED candidate_test_taken
          ELSE /\ candidate_test_taken' =
                     MarkTaken(candidate_test_taken, candidate_id, job_id, question_set_id, cid)
               /\ handled' = Append(handled,
                     [op |-> "save_violations", candidate_id |-> candidate_id, cid |-> cid,
                      job_id |-> job_id, question_set_id |-> question_set_id,
                      mark_complete |-> FALSE, status |-> 200, questions |-> FALSE])
    /\ UNCHANGED <<genVars, scoreVars, extractVars, runs>>

\* lines 862-1274: POST submit_section; scored tells whether the scoring loop
\* and the storing of its records went through
submit_section ==
    /\ Len(handled) < MaxRequests
    /\ \E candidate_id \in GateCandidates, cid \in GateCids, job_id \in GateJobs,
          question_set_id \in GateSets, mark_complete \in BOOLEAN, scored \in BOOLEAN :
          /\ candidate_test_taken' =
                IF scored /\ mark_complete
                THEN MarkTaken(candidate_test_taken, candidate_id, job_id, question_set_id, cid)
                ELSE candidate_test_taken
          /\ handled' = Append(handled,
                [op |-> "submit_section", candidate_id |-> candidate_id, cid |-> cid,
                 job_id |-> job_id, question_set_id |-> question_set_id,
                 mark_complete |-> mark_complete,
                 status |-> IF scored THEN 200 ELSE 500, questions |-> FALSE])
    /\ UNCHANGED <<genVars, scoreVars, extractVars, runs>>

GateNext == start_test \/ save_violations \/ submit_section

GateSpec == GateInit /\ [][GateNext]_vars

(***************************************************************************)
(* services/generator.py: two calls of generate_questions, one after the   *)
(* other or at the same time                                               *)
(*                                                                         *)
(* runs[k]   the locals of call k: rpc ("idle", "running", "done"), its    *)
(*           tasks, its seen_texts and seen_lock (lines 37-38), and for    *)
(*           each task what _create_one holds, as in the machine above.    *)
(* Every call has at most 8 tasks, so each task has a worker at once.      *)
(***************************************************************************)
NRuns == 2
RunIds == 1..NRuns

\* the request of each call, and what the remote service gives
RunPayload(k) ==
    IF k = 1 THEN <<Skill(N_sql, << <<T_mcq, IntV(2)>> >>)>>
    ELSE <<Skill(N_sql, << <<T_mcq, IntV(1)>> >>)>>
RunRemote == {R_neterr, R_mcq(Stem, Opts1)}

\* a set of texts shared by all calls
SeenTexts_shared(rs, k) == UNION {rs[j].seen_texts : j \in DOMAIN rs}

\* lines 36-37: seen_texts is a local of the call, the tasks of call k close
\* over the set of call k
SeenTexts(rs, k) == rs[k].seen_texts

RunTasks(k) == DOMAIN runs[k].tasks

RunsInit ==
    /\ runs = [k \in RunIds |->
                 [rpc |-> "idle", tasks |-> <<>>, seen_texts |-> {}, seen_lock |-> 0,
                  tpc |-> <<>>, attempts |-> <<>>, last_rep |-> <<>>, q_data |-> <<>>,
                  norm |-> <<>>, ret |-> <<>>]]
    /\ GenIdle
    /\ ScoreIdle
    /\ ExtractIdle
    /\ GateIdle

\* lines 14-38 and 126-129: the task list, a new set and a new lock, and the
\* tasks submitted
RunCall(k) ==
    /\ runs[k].rpc = "idle"
    /\ \E ts \in {FlattenSkills(RunPayload(k))} :
          runs' = [runs EXCEPT ![k] =
                     [rpc |-> "running", tasks |-> ts, seen_texts |-> {}, seen_lock |-> 0,
                      tpc |-> [t \in DOMAIN ts |-> "loop"],
                      attempts |-> [t \in DOMAIN ts |-> 0],
                      last_rep |-> [t \in DOMAIN ts |-> NoneV],
                      q_data |-> [t \in DOMAIN ts |-> NoneV],
                      norm |-> [t \in DOMAIN ts |-> <<>>],
                      ret |-> [t \in DOMAIN ts |-> NoneV]]]
    /\ UNCHANGED <<genVars, scoreVars, extractVars, gateVars>>

\* lines 52-88: one attempt up to the lock
RunAttempt(k, t) ==
    /\ runs[k].tpc[t] = "loop"
    /\ LoopContinues(runs[k].attempts[t])
    /\ \E resp \in RunRemote :
       \E qd \in {CallResult(generate_question(runs[k].tasks[t].qtype, resp),
                             runs[k].tasks[t].name, runs[k].tasks[t].qtype)} :
       \E rep \in {IF qd.t = "raise" THEN RaiseV ELSE BuildRep(runs[k].tasks[t].qtype, qd)} :
       \E nm \in {IF rep.t = "raise" THEN <<>> ELSE _normalize_text(rep)} :
           runs' = IF rep.t = "raise"
                   THEN [runs EXCEPT ![k].attempts[t] = @ + 1, ![k].q_data[t] = qd,
                                     ![k].tpc[t] = "raised"]
                   ELSE [runs EXCEPT ![k].attempts[t] = @ + 1, ![k].q_data[t] = qd,
                                     ![k].last_rep[t] = rep, ![k].norm[t] = nm,
                                     ![k].tpc[t] = IF nm = <<>> THEN "loop" ELSE "lock"]
    /\ UNCHANGED <<genVars, scoreVars, extractVars, gateVars>>

\* lines 90 and 114: with seen_lock, the lock of call k
RunAcquire(k, t) ==
    /\ runs[k].tpc[t] \in {"lock", "flock"}
    /\ CanAcquire(runs[k].seen_lock)
    /\ runs' = [runs EXCEPT ![k].seen_lock = t,
                            ![k].tpc[t] = IF runs[k].tpc[t] = "lock" THEN "check" ELSE "fadd"]
    /\ UNCHANGED <<genVars, scoreVars, extractVars, gateVars>>

\* lines 91-93: the membership test in seen_texts
RunCheck(k, t) ==
    /\ runs[k].tpc[t] = "check"
    /\ runs' = IF runs[k].norm[t] \in SeenTexts(runs, k)
               THEN [runs EXCEPT ![k].seen_lock = LockAfterDuplicate(t), ![k].tpc[t] = "loop"]
               ELSE [runs EXCEPT ![k].tpc[t] = "insert"]
    /\ UNCHANGED <<genVars, scoreVars, extractVars, gateVars>>

\* lines 94-103: insert, release, return the question
RunInsert(k, t) ==
    /\ runs[k].tpc[t] = "insert"
    /\ runs' = [runs EXCEPT ![k].seen_texts = @ \cup {runs[k].norm[t]},
                            ![k].seen_lock = 0,
                            ![k].ret[t] = Question(runs[k].tasks[t], runs[k].q_data[t]),
                            ![k].tpc[t] = "accepted"]
    /\ UNCHANGED <<genVars, scoreVars, extractVars, gateVars>>

\* lines 105-115 up to the lock
RunForce(k, t) ==
    /\ runs[k].tpc[t] = "loop"
    /\ ~LoopContinues(runs[k].attempts[t])
    /\ \E hex \in Suffixes :
       \E base \in {ForceBase(runs[k].last_rep[t], runs[k].tasks[t].name,
                              runs[k].tasks[t].qtype)} :
       \E forced \in {ForceText(base, VariantSuffix(hex))} :
           runs' = IF forced.t = "raise"
                   THEN [runs EXCEPT ![k].tpc[t] = "raised"]
                   ELSE [runs EXCEPT ![k].tpc[t] = "flock",
                                     ![k].norm[t] = _normalize_text(forced),
                                     ![k].q_data[t] =
                                         ForceContent(base, VariantSuffix(hex),
                                                      runs[k].tasks[t].name,
                                                      runs[k].tasks[t].qtype)]
    /\ UNCHANGED <<genVars, scoreVars, extractVars, gateVars>>

\* lines 115-123: record the variant, release, return
RunForceAdd(k, t) ==
    /\ runs[k].tpc[t] = "fadd"
    /\ runs' = [runs EXCEPT ![k].seen_texts = @ \cup {runs[k].norm[t]},
                            ![k].seen_lock = 0,
                            ![k].ret[t] = Question(runs[k].tasks[t], runs[k].q_data[t]),
                            ![k].tpc[t] = "forced"]
    /\ UNCHANGED <<genVars, scoreVars, extractVars, gateVars>>

\* lines 130-139: every future finished, the call returns
RunReturn(k) ==
    /\ runs[k].rpc = "running"
    /\ \A t \in RunTasks(k) : runs[k].tpc[t] \in {"accepted", "forced", "raised"}
    /\ runs' = [runs EXCEPT ![k].rpc = "done"]
    /\ UNCHANGED <<genVars, scoreVars, extractVars, gateVars>>

RunsNext ==
    \/ \E k \in RunIds : RunCall(k)
    \/ \E k \in RunIds : \E t \in RunTasks(k) : RunAttempt(k, t)
    \/ \E k \in RunIds : \E t \in RunTasks(k) : RunAcquire(k, t)
    \/ \E k \in RunIds : \E t \in RunTasks(k) : RunCheck(k, t)
    \/ \E k \in RunIds : \E t \in RunTasks(k) : RunInsert(k, t)
    \/ \E k \in RunIds : \E t \in RunTasks(k) : RunForce(k, t)
    \/ \E k \in RunIds : \E t \in RunTasks(k) : RunForceAdd(k, t)
    \/ \E k \in RunIds : RunReturn(k)

RunsSpec == RunsInit /\ [][RunsNext]_vars

(***************************************************************************)
(* Properties of the generation engine                                     *)
(***************************************************************************)
\* the normalized representative text of a returned question
ResultText(t) == _normalize_text(BuildRep(tasks[t].qtype, ret[t].content))

\* C1: when generate_questions returns, it returns exactly one question per
\* flattened task, whatever the remote calls gave.
C1_ExactlyN == pc = "done" => Cardinality(results) = Len(tasks)

\* C2: when generate_questions returns, no two returned questions have equal
\* normalized representative text, forced variants included.
C2_NoDuplicateTexts ==
    pc = "done" =>
        \A t \in results : \A u \in results : t # u => ResultText(t) # ResultText(u)

\* the tasks inside the critical section of seen_lock
InCritical == {t \in TaskIds : tpc[t] \in {"check", "insert", "fadd"}}

\* C3: the membership test and the insertion happen in one critical section of
\* one lock: at most one task is inside it, it is the holder of the lock, and
\* no two tasks are accepted on a regular attempt with the same text.
C3_CheckAndInsertAtomic ==
    /\ Cardinality(InCritical) <= 1
    /\ \A t \in InCritical : seen_lock = t
    /\ \A t \in TaskIds : \A u \in TaskIds :
          (t # u /\ tpc[t] \in {"insert", "accepted"} /\ tpc[u] \in {"insert", "accepted"})
              => norm[t] # norm[u]

\* two tasks produced the same text concurrently: one holds the lock about to
\* insert it, the other waits for the lock, and later retries
C3_Witness ==
    \E t \in TaskIds : \E u \in TaskIds :
        /\ t # u
        /\ tpc[t] = "insert"
        /\ tpc[u] = "lock"
        /\ norm[t] = norm[u]
        /\ norm[t] # <<>>

\* C4: under fair scheduling every call of generate_questions returns.
C4_Terminates == <>(pc = "done")

\* a run that returned after a task waited for the lock, used all its
\* attempts and was forced
C4_Witness == pc = "done" /\ \E t \in TaskIds : tpc[t] = "forced" /\ attempts[t] = 5

\* C5: the tasks in flight never exceed min(8, number of tasks).
C5_InFlightBounded == Cardinality(InFlight) <= Min(8, Len(tasks))

\* eight tasks in flight while a ninth stays queued
C5_Witness == Cardinality(InFlight) = 8 /\ \E t \in TaskIds : tpc[t] = "queued"

\* C6: a task makes at least 1 and at most 5 calls of generate_question, none
\* after its candidate was accepted, so a run of N tasks makes at most 5*N.
RECURSIVE SumCalls(_)
SumCalls(n) == IF n = 0 THEN 0 ELSE calls[n] + SumCalls(n - 1)

C6_CallsBounded ==
    /\ [](/\ \A t \in TaskIds : calls[t] <= 5
          /\ \A t \in Finished : calls[t] >= 1
          /\ SumCalls(Len(tasks)) <= 5 * Len(tasks))
    /\ [][\A t \in TaskIds : tpc[t] = "accepted" => calls'[t] = calls[t]]_vars

\* one task accepted after a single call, another forced after five
C6_Witness ==
    \E t \in TaskIds : \E u \in TaskIds :
        tpc[t] = "accepted" /\ calls[t] = 1 /\ tpc[u] = "forced" /\ calls[u] = 5

\* the fallback candidate of a task
FallbackNorm(t) ==
    _normalize_text(BuildRep(tasks[t].qtype, FallbackContent(tasks[t].name, tasks[t].qtype)))

\* C7: a call that fails remotely (None or an exception) does not abort the
\* task: the candidate is the fallback template of its (skill, type), it goes
\* through the same check-and-insert step, and the run returns a question for
\* the task.
C7_FallbackOnFailure ==
    \A t \in TaskIds :
        last_call[t] \in {"none", "raise"} =>
            /\ tpc[t] # "raised"
            /\ tpc[t] \in {"lock", "check", "insert", "accepted"} =>
                  /\ q_data[t] = FallbackContent(tasks[t].name, tasks[t].qtype)
                  /\ norm[t] = FallbackNorm(t)
            /\ tpc[t] = "accepted" =>
                  /\ norm[t] \in seen_texts
                  /\ \A u \in TaskIds : (u # t /\ tpc[u] = "accepted") => norm[u] # norm[t]
            /\ pc = "done" => t \in results /\ ret[t] # NoneV

\* a run returned the fallback question of a task whose call raised, and of
\* one whose call returned None
C7_Witness ==
    /\ pc = "done"
    /\ \E t \in results :
          /\ last_call[t] \in {"none", "raise"}
          /\ tpc[t] = "accepted"
          /\ ret[t].content = FallbackContent(tasks[t].name, tasks[t].qtype)
    /\ \E t \in results : last_call[t] = "raise"

(***************************************************************************)
(* Properties of the flattening and of the representative text             *)
(***************************************************************************)
\* the skills of the request that have a non-empty name
NamedSkills == SelectSeq(payload, LAMBDA sk : Truthy(PyGet(sk, K_name)))

\* the count values of a skill, in order
CountsOf(sk) ==
    LET c == PyGetD(sk, K_counts, NoneV)
    IN IF c.t = "dict" THEN [i \in DOMAIN c.kv |-> c.kv[i][2]] ELSE <<>>

RECURSIVE SumSeq(_)
SumSeq(ns) == IF ns = <<>> THEN 0 ELSE Head(ns) + SumSeq(Tail(ns))

\* the tasks a count stands for when only integer counts make tasks
IntegerOnly(v) == IF v.t = "int" /\ v.n > 0 THEN v.n ELSE 0

\* the tasks a count stands for: an integer n makes n tasks, a fraction is cut
\* toward zero, a string that is the decimal writing of an integer (blanks and
\* a plus sign allowed) counts as that integer, anything else makes none
Converted(v) ==
    CASE v.t = "int" -> IF v.n > 0 THEN v.n ELSE 0
      [] v.t = "float" ->
            IF v.milli < 1000 THEN 0
            ELSE CHOOSE k \in 1..v.milli : 1000 * k <= v.milli /\ v.milli < 1000 * k + 1000
      [] v.t = "str" ->
            LET body == SelectSeq(v.s, LAMBDA c : c \notin {" ", "\t"})
                plain == IF body # <<>> /\ Head(body) = "+" THEN Tail(body) ELSE body
                hits == {n \in 1..99 : IntChars(n) = plain}
            IN IF hits = {} THEN 0 ELSE CHOOSE n \in hits : TRUE
      [] OTHER -> 0

TotalOf(F(_)) ==
    SumSeq([i \in DOMAIN NamedSkills |->
                SumSeq([j \in DOMAIN CountsOf(NamedSkills[i]) |-> F(CountsOf(NamedSkills[i])[j])])])

\* the parts of C8 that do not depend on how a count is read: tasks belong to
\* named skills, and an empty task list returns [] with no worker and no call
FlattenFrame ==
    /\ \A t \in TaskIds :
          /\ Truthy(tasks[t].name)
          /\ \E i \in DOMAIN payload : PyGet(payload[i], K_name) = tasks[t].name
    /\ (pc # "start" /\ tasks = <<>>) =>
          pc = "done" /\ results = {} /\ nsub = 0 /\ seen_texts = {}

\* C8 as stated: the number of tasks is the sum over named skills and their
\* types of max(0, int(count)), and a count that is not an integer makes no task.
C8_NonIntegerCountsMakeNoTask ==
    pc # "start" => (Len(tasks) = TotalOf(IntegerOnly) /\ FlattenFrame)

\* C8 amended: one task per requested instance, the number of tasks being the
\* sum over named skills and their types of max(0, int(count)); a count int()
\* rejects makes no task, a fractional count is cut toward zero, a numeric
\* string counts as its number; an empty task list returns [] at once.
C8_TaskCount ==
    pc # "start" => (Len(tasks) = TotalOf(Converted) /\ FlattenFrame)

\* a request with a fractional count was flattened into two tasks
C8_Witness ==
    /\ pc # "start"
    /\ Len(tasks) = 2
    /\ \E i \in DOMAIN payload : FloatV(2700) \in Range(CountsOf(payload[i]))

\* the words of a text: lower-cased, punctuation dropped, split at whitespace
RECURSIVE SplitWords(_)
SplitWords(s) ==
    IF s = <<>> THEN <<>>
    ELSE IF IsSpace(Head(s)) THEN SplitWords(Tail(s))
    ELSE LET stops == {i \in DOMAIN s : IsSpace(s[i])}
             n == IF stops = {} THEN Len(s)
                  ELSE (CHOOSE i \in stops : \A j \in stops : i <= j) - 1
         IN <<SubSeq(s, 1, n)>> \o SplitWords(SubSeq(s, n + 1, Len(s)))

WordsOf(text) == SplitWords(SelectSeq(Lower(text), LAMBDA c : IsWord(c) \/ IsSpace(c)))

\* the candidates whose text came from remote content and is current
RemoteCandidates ==
    {t \in TaskIds : last_call[t] = "ok" /\ tpc[t] \in {"lock", "check", "insert", "accepted"}
                     /\ q_data[t].t = "dict"}

StemOf(t) == PyGet(q_data[t], K_question)

\* what distinguishes two candidates with one stem: the options of an mcq, the
\* input and output specs of a coding question
ExtrasOf(t) ==
    IF tasks[t].qtype = T_mcq THEN <<PyGet(q_data[t], K_options)>>
    ELSE <<PyGet(q_data[t], K_input_spec), PyGet(q_data[t], K_output_spec)>>

\* the text of the extras as it enters the representative text
ExtrasText(t) ==
    IF tasks[t].qtype = T_mcq
    THEN SpaceJoin(PyOr(PyGet(q_data[t], K_options), ListV(<<>>))).s
    ELSE PyStr(PyOr(PyGet(q_data[t], K_input_spec), Str(<<>>))) \o <<" ">>
         \o PyStr(PyOr(PyGet(q_data[t], K_output_spec), Str(<<>>)))

SameStem(t, u) ==
    /\ t # u
    /\ tasks[t].qtype = tasks[u].qtype
    /\ tasks[t].qtype \in {T_mcq, T_coding}
    /\ StemOf(t) = StemOf(u)

\* C9 as stated: two candidates with one stem and different options (or
\* different specs) have different normalized representative texts.
C9_DifferentOptionsDifferentText ==
    \A t \in RemoteCandidates : \A u \in RemoteCandidates :
        (SameStem(t, u) /\ ExtrasOf(t) # ExtrasOf(u)) => norm[t] # norm[u]

\* C9 amended: the options (the specs) are part of the representative text, so
\* two candidates with one stem whose options differ in their words (beyond
\* letter case, punctuation and whitespace) have different normalized texts; a
\* candidate is rejected only when its normalized text is that of a question
\* already returned, so such candidates are all accepted.
C9_DifferentWordsDifferentText ==
    /\ \A t \in RemoteCandidates : \A u \in RemoteCandidates :
          (SameStem(t, u) /\ WordsOf(ExtrasText(t)) # WordsOf(ExtrasText(u)))
              => norm[t] # norm[u]
    /\ seen_texts = {norm[u] : u \in {v \in TaskIds : tpc[v] \in {"accepted", "forced"}}}

\* three mcq candidates with one stem and three option lists, each accepted on
\* its first attempt
C9_Witness ==
    /\ Len(tasks) = 3
    /\ \A t \in TaskIds :
          /\ tasks[t].qtype = T_mcq
          /\ tpc[t] = "accepted"
          /\ attempts[t] = 1
          /\ last_call[t] = "ok"
    /\ \A t \in TaskIds : \A u \in TaskIds :
          t # u => (StemOf(t) = StemOf(u) /\ ExtrasOf(t) # ExtrasOf(u))

(***************************************************************************)
(* C10: failures while a response is evaluated                             *)
(***************************************************************************)
\* the remote evaluator failed for the i-th response: transport error, non-2xx,
\* a body that is no chat completion, or content that holds no JSON
RemoteFailure(i) == drawn[i].kind \in {"neterr", "http", "badbody", "nojson"}

\* the i-th response breaks the audio/video heuristic: its transcript is a
\* value that is no text, or one of its embedded keywords is no text
HeuristicFailure(i) ==
    LET r == data.responses[i]
        a == PyGet(r, K_candidate_answer)
        c == PyGet(r, K_correct_answer)
    IN /\ r.t = "dict"
       /\ PyGet(r, K_question_type) \in {Str(T_audio), Str(T_video)}
       /\ \/ a.t = "dict" /\ Truthy(PyGet(a, K_transcript)) /\ ~IsStr(PyGet(a, K_transcript))
          \/ /\ c.t = "dict"
             /\ PyGet(c, K_expected_keywords).t = "list"
             /\ \E k \in Range(PyGet(c, K_expected_keywords).xs) : ~IsStr(k)

FailureFeedback == {Str(F_evaluation_failed), Str(F_av_failed)}

\* C10 as stated: every response whose evaluation failed (remote evaluator
\* transport error or non-2xx, evaluator output with no parseable JSON, internal
\* error of the audio/video heuristic) has a record of its own, with score 0 and
\* a failure feedback text; having a record, it did not end the loop, so the
\* responses after it are scored.
C10_FailureScoresZero ==
    \A i \in DOMAIN drawn :
        (RemoteFailure(i) \/ HeuristicFailure(i)) =>
            /\ i \in DOMAIN results_out
            /\ results_out[i].score \in {IntV(0), FloatV(0)}
            /\ results_out[i].feedback \in FailureFeedback

(***************************************************************************)
(* C11: one evaluation record per response, in the order of the responses  *)
(***************************************************************************)
\* C11 as stated: the loop goes through the responses in order and every
\* response it has handled has a record of its own, so that the evaluations are
\* as many as the responses handled and the i-th record carries the question_id
\* of the i-th response.
C11_OneRecordPerResponse ==
    /\ Len(results_out) = idx
    /\ \A i \in DOMAIN results_out :
          /\ data.responses[i].t = "dict"
          /\ results_out[i].question_id = PyGet(data.responses[i], K_question_id)

(***************************************************************************)
(* Properties of the heuristic scoring engine                              *)
(***************************************************************************)
\* the heuristic ran to its end for the i-th response
HeuristicRan(i) == "matches" \in DOMAIN loop_locals[i].heuristic

\* the positions of the keywords of the i-th response that are not empty, and
\* of those that are in the lower-cased transcript
NonEmptyKeywords(i) ==
    LET h == loop_locals[i].heuristic
    IN {j \in DOMAIN h.items : h.items[j].s # <<>>}

KeywordsInTranscript(i) ==
    LET h == loop_locals[i].heuristic
    IN {j \in NonEmptyKeywords(i) : Contains(h.transcript_clean.s, Lower(h.items[j].s))}

\* C12 as stated: keyword_score = matches / max(1, total) is 1.0 (matches = total)
\* whenever every expected keyword, empty ones left aside, is in the lower-cased
\* transcript, it is 0.0 whenever none is, and it grows with the number of
\* keywords found (matches is that number); so empty keywords do not lower the
\* score of a transcript that holds all the others.
C12_KeywordScore ==
    \A i \in DOMAIN loop_locals :
        HeuristicRan(i) =>
            LET h == loop_locals[i].heuristic
            IN /\ h.matches = Cardinality(KeywordsInTranscript(i))
               /\ (NonEmptyKeywords(i) # {} /\ KeywordsInTranscript(i) = NonEmptyKeywords(i))
                     => h.matches = h.total
               /\ KeywordsInTranscript(i) = {} => h.matches = 0

\* the raw score the heuristic gave the i-th response
HeuristicScore(i) == PyGet(loop_locals[i].evaluation, K_score)

\* C13: combined = keyword_score for audio; for video combined =
\* 0.8 * keyword_score + 0.2 * time_score when there is a time score and
\* 0.8 * keyword_score when there is none, so that a video answer with every
\* keyword found and no duration scores 0.8. (keyword_score = matches / total,
\* the equations are cross-multiplied.)
C13_CombinedScore ==
    \A i \in DOMAIN loop_locals :
        HeuristicRan(i) =>
            LET h == loop_locals[i].heuristic
                qtype == PyGet(data.responses[i], K_question_type)
                ts == h.time_score
            IN /\ qtype = Str(T_audio)
                     => h.combined.num * h.total = h.matches * h.combined.den
               /\ (qtype = Str(T_video) /\ ts.has)
                     => 10 * h.combined.num * h.total * ts.den
                           = h.combined.den * (8 * h.matches * ts.den + 2 * ts.num * h.total)
               /\ (qtype = Str(T_video) /\ ~ts.has)
                     => 10 * h.combined.num * h.total = 8 * h.matches * h.combined.den
               /\ (qtype = Str(T_video) /\ h.duration = NoneV /\ h.matches = h.total)
                     => HeuristicScore(i) = FloatV(800)

\* a video answer with both keywords and no duration has got 0.8, and another
\* one has got a score with a time score in it
C13_Witness ==
    \E i \in DOMAIN loop_locals :
        /\ HeuristicRan(i)
        /\ PyGet(data.responses[i], K_question_type) = Str(T_video)
        /\ loop_locals[i].heuristic.duration = NoneV
        /\ loop_locals[i].heuristic.matches = 2
        /\ loop_locals[i].heuristic.total = 2
        /\ HeuristicScore(i) = FloatV(800)
        /\ i \in DOMAIN results_out

\* C14: a time score exists only when both the observed duration and the
\* suggested duration are known; it is 1.0 when 0.5 * suggested <= duration <=
\* 1.5 * suggested and max(0, 1 - |duration - suggested| / suggested) otherwise;
\* when one of the two is missing there is no time score (nothing is divided).
\* The equations are cross-multiplied, durations in thousandths of a second.
C14_TimeScore ==
    \A i \in DOMAIN loop_locals :
        HeuristicRan(i) =>
            LET h == loop_locals[i].heuristic
                ts == h.time_score
                d == PyFloat(h.duration).milli
                s == PyFloat(h.st).milli
            IN /\ (h.duration = NoneV \/ h.st = NoneV) => ~ts.has
               /\ ts.has =>
                     /\ h.duration # NoneV /\ h.st # NoneV
                     /\ PyFloat(h.duration).ok /\ PyFloat(h.st).ok
                     /\ IF s <= 2 * d /\ 2 * d <= 3 * s THEN ts.num = ts.den
                        ELSE IF s > 0 THEN ts.num * s = ts.den * Max(0, s - Abs(d - s))
                        ELSE s < 0 /\ ts.num * (0 - s) = ts.den * (Abs(d - s) - s)

\* one answer of 100 seconds for 60 suggested has the time score 1/3, and the
\* same submission sent with no duration would have none
C14_Witness ==
    \E i \in DOMAIN loop_locals :
        /\ HeuristicRan(i)
        /\ loop_locals[i].heuristic.duration = IntV(100)
        /\ loop_locals[i].heuristic.st = IntV(60)
        /\ loop_locals[i].heuristic.time_score = [has |-> TRUE, num |-> 1, den |-> 3]

\* C15: for every audio or video response the heuristic scored without an
\* internal error, is_correct of its record is true exactly when the combined
\* score, not rounded, is at least 0.6.
C15_CorrectFromSixTenths ==
    \A i \in DOMAIN results_out :
        HeuristicRan(i) =>
            LET c == loop_locals[i].heuristic.combined
            IN results_out[i].is_correct = BoolV(10 * c.num >= 6 * c.den)

\* a video answer with one keyword of two, inside the time window, has the
\* combined score 0.8 * 0.5 + 0.2 * 1.0 = 0.6 and is correct
C15_Witness ==
    \E i \in DOMAIN results_out :
        /\ HeuristicRan(i)
        /\ PyGet(data.responses[i], K_question_type) = Str(T_video)
        /\ loop_locals[i].heuristic.matches = 1
        /\ loop_locals[i].heuristic.total = 2
        /\ loop_locals[i].heuristic.time_score.has
        /\ 10 * loop_locals[i].heuristic.combined.num = 6 * loop_locals[i].heuristic.combined.den
        /\ results_out[i].is_correct = BoolV(TRUE)

\* the keywords the correct answer of a response carries, for each shape of it:
\* an object, the JSON text of an object or of a list, a comma-separated text
EmbeddedKeywords(correct) ==
    IF correct.t = "dict" THEN KeywordFields(correct).kws
    ELSE IF IsStr(correct) THEN KeywordsOfText(correct).kws
    ELSE ListV(<<>>)

\* absent, empty, or the placeholder "N/A"
PlaceholderKeywords(kws, correct) ==
    \/ ~Truthy(kws)
    \/ kws = ListV(<<Str(N_A)>>)
    \/ (IsStr(correct) /\ Upper(Strip(correct.s)) = N_A)

\* the keywords stored with the question of the i-th response
StoredKeywords(i) ==
    KeywordFields(PyOr(PyGet(question_meta, PyStr(PyGet(data.responses[i], K_question_id))),
                       DictV(<<>>))).kws

\* C16 as stated: the expected keywords of an audio or video response are the
\* keywords its correct answer carries, whatever its shape; when those are
\* absent, empty or the placeholder "N/A" and the metadata of the question has
\* keywords, the keywords of the metadata are used instead.
C16_KeywordFallback ==
    \A i \in DOMAIN loop_locals :
        "expected_keywords" \in DOMAIN loop_locals[i].heuristic =>
            LET correct == PyGet(data.responses[i], K_correct_answer)
                embedded == EmbeddedKeywords(correct)
            IN loop_locals[i].heuristic.expected_keywords
                  = IF PlaceholderKeywords(embedded, correct) /\ Truthy(StoredKeywords(i))
                    THEN StoredKeywords(i)
                    ELSE embedded

(***************************************************************************)
(* Properties of the mark normalization                                    *)
(***************************************************************************)
\* the question type of the i-th response and what its evaluation says
TypeOf(i) == PyGet(data.responses[i], K_question_type)

SaysCorrect(i) == PyGet(loop_locals[i].evaluation, K_is_correct)

\* C17 as stated: for an mcq response whose question has a positive_marking
\* the final score is positive_marking when the evaluation says the answer is
\* correct and 0 when it says it is not, whatever else the evaluator output
\* holds (a score field or none).
C17_AllOrNothing ==
    \A i \in DOMAIN results_out :
        (/\ TypeOf(i) = Str(T_mcq)
         /\ results_out[i].positive_marking # NoneV
         /\ SaysCorrect(i).t = "bool") =>
            results_out[i].score
               = IF SaysCorrect(i).b THEN results_out[i].positive_marking ELSE FloatV(0)

\* the raw score of the i-th response: the score of its evaluation before the
\* marks are normalized
RawScore(i) == PyGet(loop_locals[i].evaluation, K_score)

\* the i-th response has a record, its question a positive_marking, its
\* evaluation a raw score that is a number
ScaledNumeric(i) ==
    /\ i \in DOMAIN results_out
    /\ results_out[i].positive_marking # NoneV
    /\ RawScore(i) # NoneV
    /\ PyFloat(RawScore(i)).ok

\* C18 as stated: with a positive_marking the final score is (raw / 10) *
\* positive_marking for coding and raw * positive_marking for audio and video
\* (in thousandths: score * 10000 = raw * mark, score * 1000 = raw * mark).
C18_ScaledScoreLinear ==
    \A i \in DOMAIN results_out :
        ScaledNumeric(i) =>
            LET raw == PyFloat(RawScore(i)).milli
                mark == results_out[i].positive_marking.milli
                score == results_out[i].score
            IN /\ TypeOf(i) = Str(T_coding)
                     => score.t = "float" /\ score.milli * 10000 = raw * mark
               /\ TypeOf(i) \in {Str(T_audio), Str(T_video)}
                     => score.t = "float" /\ score.milli * 1000 = raw * mark

\* C18, amended: with a positive_marking and a raw score that is a number the
\* final score is round((raw / 10) * positive_marking, 3) for coding and
\* round(raw * positive_marking, 3) for audio and video, raw being for these
\* the score of the heuristic, itself rounded to 3 decimals; a raw score that
\* is no number is reported as it is.
C18_ScaledScoreRounded ==
    \A i \in DOMAIN results_out :
        (results_out[i].positive_marking # NoneV /\ RawScore(i) # NoneV) =>
            LET raw == PyFloat(RawScore(i)).milli
                mark == results_out[i].positive_marking.milli
                score == results_out[i].score
            IN /\ (TypeOf(i) = Str(T_coding) /\ PyFloat(RawScore(i)).ok)
                     => score = FloatV(RoundDiv(raw * mark, 10000))
               /\ (TypeOf(i) \in {Str(T_audio), Str(T_video)} /\ PyFloat(RawScore(i)).ok)
                     => score = FloatV(RoundDiv(raw * mark, 1000))
               /\ (TypeOf(i) \in {Str(T_coding), Str(T_audio), Str(T_video)}
                   /\ ~PyFloat(RawScore(i)).ok)
                     => score = RawScore(i)

\* a coding answer with the raw score 7 and the positive_marking 10 has got 7.0
C18_Witness ==
    \E i \in DOMAIN results_out :
        /\ TypeOf(i) = Str(T_coding)
        /\ RawScore(i) = IntV(7)
        /\ results_out[i].positive_marking = FloatV(10000)
        /\ results_out[i].score = FloatV(7000)

\* the question of the i-th response has no positive_marking
NoMarking(i) ==
    PyGet(PyOr(PyGet(question_meta, PyStr(PyGet(data.responses[i], K_question_id))),
               DictV(<<>>)),
          K_positive_marking) = NoneV

\* C19: when the question has no positive_marking the final score is the raw
\* score of the evaluator as a float rounded to 3 decimals, on its own scale
\* (nothing is multiplied or divided): for coding and mcq the number the remote
\* evaluator gave, for audio and video the combined score of the heuristic
\* rounded to 3 decimals. A raw score that is no number, or none, stays as it is.
\* (The raw scores of the remote evaluator have at most 3 decimals here.)
C19_UnscaledWithoutMarking ==
    \A i \in DOMAIN results_out :
        NoMarking(i) =>
            /\ results_out[i].positive_marking = NoneV
            /\ IF RawScore(i) # NoneV /\ PyFloat(RawScore(i)).ok
               THEN results_out[i].score = FloatV(PyFloat(RawScore(i)).milli)
               ELSE results_out[i].score = RawScore(i)
            /\ HeuristicRan(i) =>
                  LET c == loop_locals[i].heuristic.combined
                  IN results_out[i].score = FloatV(RoundDiv(1000 * c.num, c.den))

\* without a positive_marking a coding answer with the raw score 7 has got 7.0
\* and a video answer with the combined score 13/15 has got 0.867
C19_Witness ==
    \E i \in DOMAIN results_out :
        /\ NoMarking(i)
        /\ \/ /\ TypeOf(i) = Str(T_coding)
              /\ RawScore(i) = IntV(7)
              /\ results_out[i].score = FloatV(7000)
           \/ /\ TypeOf(i) = Str(T_video)
              /\ HeuristicRan(i)
              /\ 15 * loop_locals[i].heuristic.combined.num
                    = 13 * loop_locals[i].heuristic.combined.den
              /\ results_out[i].score = FloatV(867)

\* the i-th response is an audio or video response the heuristic was given
HeuristicGiven(i) == "transcript" \in DOMAIN loop_locals[i].heuristic

\* the JSON texts of objects
ObjectTexts == {JsonText(v) : v \in {w \in JsonValues : w.t = "dict"}}

\* the j-th response is the i-th one with its answer object sent as JSON text
SentAsJsonText(i, j) ==
    LET ri == data.responses[i]
        rj == data.responses[j]
    IN /\ HeuristicGiven(i) /\ HeuristicGiven(j)
       /\ AnswerOf(ri).t = "dict"
       /\ AnswerOf(rj) = Str(JsonText(AnswerOf(ri)))
       /\ PyGet(ri, K_question_id) = PyGet(rj, K_question_id)
       /\ PyGet(ri, K_question_type) = PyGet(rj, K_question_type)
       /\ PyGet(ri, K_correct_answer) = PyGet(rj, K_correct_answer)

\* C20: an audio or video answer sent as an object {transcript, duration} and
\* the same object sent as its JSON text get the same transcript, the same
\* duration, the same evaluation and the same record fields score, is_correct
\* and feedback; an answer that is neither an object nor the JSON text of an
\* object is taken as the text str(answer or "") with no duration, hence with
\* no time score.
C20_AnswerShapes ==
    /\ \A i, j \in DOMAIN loop_locals :
          SentAsJsonText(i, j) =>
              /\ loop_locals[i].heuristic = loop_locals[j].heuristic
              /\ loop_locals[i].evaluation = loop_locals[j].evaluation
              /\ (i \in DOMAIN results_out /\ j \in DOMAIN results_out) =>
                    /\ results_out[i].score = results_out[j].score
                    /\ results_out[i].is_correct = results_out[j].is_correct
                    /\ results_out[i].feedback = results_out[j].feedback
    /\ \A i \in DOMAIN loop_locals :
          LET a == AnswerOf(data.responses[i])
              h == loop_locals[i].heuristic
          IN (/\ HeuristicGiven(i)
              /\ a.t # "dict"
              /\ ~(IsStr(a) /\ a.s \in ObjectTexts)) =>
                 /\ h.transcript = Str(PyStr(PyOr(a, Str(<<>>))))
                 /\ h.duration = NoneV
                 /\ HeuristicRan(i) => ~h.time_score.has

\* an answer of 100 seconds sent as an object and again as JSON text has got
\* the time score 1/3 and the same record both times
C20_Witness ==
    \E i, j \in DOMAIN results_out :
        /\ SentAsJsonText(i, j)
        /\ HeuristicRan(j)
        /\ loop_locals[j].heuristic.duration = IntV(100)
        /\ loop_locals[j].heuristic.time_score = [has |-> TRUE, num |-> 1, den |-> 3]
        /\ loop_locals[j].heuristic.matches > 0
        /\ results_out[i].score = results_out[j].score

(***************************************************************************)
(* Properties of the JSON extraction                                       *)
(***************************************************************************)
\* the spans of s that begin with "{" and end with "}" and are the JSON text
\* of an object
ObjectSpans(s) ==
    {sp \in {<<i, j>> : i \in DOMAIN s, j \in DOMAIN s} :
        /\ sp[1] < sp[2]
        /\ s[sp[1]] = "{"
        /\ s[sp[2]] = "}"
        /\ JsonLoads(SubSeq(s, sp[1], sp[2])).t = "dict"}

\* the first well-formed JSON object of a text, NoneV when it has none
FirstObject(v) ==
    IF ~IsStr(v) THEN NoneV
    ELSE Eager(LAMBDA spans :
                  IF spans = {} THEN NoneV
                  ELSE LET sp == CHOOSE a \in spans : \A b \in spans : a[1] <= b[1]
                       IN JsonLoads(SubSeq(v.s, sp[1], sp[2])),
               ObjectSpans(v.s))

\* C21: the extraction returns the first well-formed JSON object of the text,
\* whatever prose stands before and behind it (a brace or a second object in
\* the trailing text included), and returns nothing only when the text holds
\* no well-formed JSON object.
C21_FirstWellFormedObject ==
    xpc = "returned" => parsed = FirstObject(raw_text)

(***************************************************************************)
(* Properties of the scoring loop                                          *)
(***************************************************************************)
\* the i-th response is an object whose question_type is none of mcq, coding,
\* audio, video
Unsupported(i) ==
    /\ data.responses[i].t = "dict"
    /\ PyGet(data.responses[i], K_question_type)
          \notin {Str(T_mcq), Str(T_coding), Str(T_audio), Str(T_video)}

\* the question of the i-th response has a positive_marking that is a number
Marked(i) ==
    PosMark(PyGet(question_meta, PyStr(PyGet(data.responses[i], K_question_id)))) # NoneV

\* C22: a response of another question type than mcq, coding, audio, video is
\* not sent to the remote evaluator and not given to the heuristic; its record
\* is appended with the score null, is_correct false and the feedback "Not
\* evaluated", with or without a positive_marking of its question, and when
\* it is not the last response the loop goes on with the next one.
C22_UnsupportedNotEvaluated ==
    \A i \in DOMAIN loop_locals :
        Unsupported(i) =>
            /\ drawn[i] = NoCall
            /\ loop_locals[i].heuristic = NoHeuristic
            /\ loop_locals[i].evaluation = NotEvaluated
            /\ i \in DOMAIN results_out
            /\ results_out[i].score = NoneV
            /\ results_out[i].is_correct = BoolV(FALSE)
            /\ results_out[i].feedback = Str(F_not_evaluated)
            /\ ((idx = i /\ i < Len(data.responses)) => spc = "loop")

\* a response of type "essay" whose question has the positive_marking 1.2 got
\* its "Not evaluated" record, and the mcq response behind it was scored
C22_Witness ==
    \E i \in DOMAIN results_out :
        /\ Unsupported(i)
        /\ Marked(i)
        /\ results_out[i].positive_marking = FloatV(1200)
        /\ results_out[i].score = NoneV
        /\ i + 1 \in DOMAIN results_out
        /\ results_out[i + 1].score \in {FloatV(5000), FloatV(0)}

(***************************************************************************)
(* Properties of the task pool                                             *)
(***************************************************************************)
\* the terminal outcomes of a task: its remote content or its fallback content
\* was accepted, or a variant was forced
ReachedOutcome(t) ==
    /\ tpc[t] \in {"accepted", "forced"}
    /\ ret[t] # NoneV
    /\ tpc[t] = "accepted" =>
          \/ last_call[t] = "ok"
          \/ ret[t].content = FallbackContent(tasks[t].name, tasks[t].qtype)

\* C23: no task in flight is cancelled: when generate_questions returns, every
\* task of the list was submitted and has reached a terminal outcome (remote
\* content accepted, fallback content accepted, or variant forced).
C23_EveryTaskReachesOutcome ==
    pc = "done" => \A t \in TaskIds : ReachedOutcome(t)

\* task t has used its 5 attempts without an accepted text
AttemptsExhausted(t) == tpc[t] = "loop" /\ ~LoopContinues(attempts[t])

\* C25: a task whose 5 attempts all collided or normalized to empty text forces
\* a variant without error, whatever its last representative text is (a text,
\* empty, or a value of the remote content that is no text): its next step
\* builds the suffixed content and goes on to the lock, and the question it
\* returns holds the base with the suffix, whose normalized text is in the
\* shared set.
C25_ForcedVariantCompletes ==
    [][\A t \in TaskIds :
          /\ AttemptsExhausted(t) => tpc'[t] \in {"loop", "flock"}
          /\ (tpc[t] = "fadd" /\ tpc'[t] = "forced") =>
                /\ norm[t] \in seen_texts'
                /\ \E hex \in Suffixes :
                      ret'[t].content =
                          ForceContent(ForceBase(last_rep[t], tasks[t].name, tasks[t].qtype),
                                       VariantSuffix(hex), tasks[t].name, tasks[t].qtype)]_vars

(***************************************************************************)
(* Properties of a run in which every remote call fails                    *)
(***************************************************************************)
\* no call of the run gives content
EveryCallFails == remote # {} /\ \A resp \in remote : resp.kind \in {"neterr", "http", "nojson"}

\* task t returned the fallback template as it is, after one call
ReturnedTemplate(t) ==
    /\ tpc[t] = "accepted"
    /\ calls[t] = 1
    /\ ret[t].content = FallbackContent(tasks[t].name, tasks[t].qtype)

\* task t made five calls and returned a forced variant
ReturnedVariant(t) == tpc[t] = "forced" /\ calls[t] = 5 /\ ret[t] # NoneV

\* exactly one task of the group returned the template, the others a variant
OneTemplate(group) ==
    /\ Cardinality({t \in group : ReturnedTemplate(t)}) = 1
    /\ \A t \in group : ReturnedTemplate(t) \/ ReturnedVariant(t)

\* C27 as stated: the tasks are grouped by skill and question type
C27_OneTemplatePerSkillAndType ==
    (pc = "done" /\ EveryCallFails) =>
        \A t \in TaskIds :
            LET group == {u \in TaskIds : tasks[u].name = tasks[t].name
                                          /\ tasks[u].qtype = tasks[t].qtype}
            IN Cardinality(group) >= 2 => OneTemplate(group)

\* C27: in a run where every remote call fails, of k >= 2 tasks whose fallback
\* templates have the same normalized text exactly one returns the template
\* as it is, after exactly 1 call, and each of the other k-1 makes exactly 5
\* calls and returns a forced variant, whatever the interleaving.
C27_OneTemplatePerText ==
    (pc = "done" /\ EveryCallFails) =>
        \A t \in TaskIds :
            LET group == {u \in TaskIds : FallbackNorm(u) = FallbackNorm(t)}
            IN Cardinality(group) >= 2 => OneTemplate(group)

\* a run returned in which a coding task took the template and both mcq tasks
\* of the same skill were forced
C27_Witness ==
    /\ pc = "done"
    /\ EveryCallFails
    /\ \E t \in TaskIds : tasks[t].qtype = T_coding /\ ReturnedTemplate(t)
    /\ Cardinality({t \in TaskIds : tasks[t].qtype = T_mcq /\ ReturnedVariant(t)}) = 2

(***************************************************************************)
(* Properties of the retake gate                                           *)
(***************************************************************************)
\* the request completed the test of its candidate and question set: a
\* save_violations, or a submit_section flagged as the last one, answered 200
Completes(h) ==
    /\ h.status = 200
    /\ \/ h.op = "save_violations"
       \/ h.op = "submit_section" /\ h.mark_complete

\* C26: once a save_violations call, or a flagged submit_section call, has
\* succeeded for candidate c and question set q, every later start_test for q
\* that carries candidate_id c is answered 403 and gets no questions, with or
\* without a job_id in the start request.
C26_NoRetake ==
    \A i \in DOMAIN handled : \A j \in DOMAIN handled :
        (/\ i < j
         /\ Completes(handled[i])
         /\ handled[j].op = "start_test"
         /\ handled[j].candidate_id = handled[i].candidate_id
         /\ handled[j].question_set_id = handled[i].question_set_id) =>
            handled[j].status = 403 /\ ~handled[j].questions

(***************************************************************************)
(* Properties of two calls of generate_questions                           *)
(***************************************************************************)
\* the tasks of call k that returned a question, and the texts they recorded
Returned(k) == {t \in RunTasks(k) : runs[k].tpc[t] \in {"accepted", "forced"}}
OwnTexts(k) == {runs[k].norm[t] : t \in Returned(k)}

\* C24: every call of generate_questions has a dedup set and a lock of its
\* own, used by its tasks only. The set of a call holds exactly the texts its
\* own tasks recorded; a task that goes back to the loop after the membership
\* test found its text in the set of its own call, and a task that passed the
\* test did so against the set of its own call; the holder of the lock of a
\* call is one of its tasks. So a text accepted by one call is no duplicate
\* for another call, be the two calls one after the other or at the same time.
C24_DedupSetPerCall ==
    \A k \in RunIds :
        /\ runs[k].seen_texts = OwnTexts(k)
        /\ runs[k].seen_lock \in RunTasks(k) \cup {0}
        /\ \A t \in RunTasks(k) :
              /\ (/\ runs[k].tpc[t] = "loop"
                  /\ runs[k].attempts[t] > 0
                  /\ runs[k].norm[t] # <<>>) => runs[k].norm[t] \in runs[k].seen_texts
              /\ runs[k].tpc[t] = "insert" => runs[k].norm[t] \notin runs[k].seen_texts
              /\ (runs[k].tpc[t] = "accepted" /\ runs[k].attempts[t] = 1) =>
                    \A u \in Returned(k) \ {t} : runs[k].norm[u] # runs[k].norm[t]

\* both calls are running and each has accepted the same text, the second
\* call at its first attempt
C24_Witness ==
    /\ runs[1].rpc = "running"
    /\ runs[2].rpc = "running"
    /\ \E t \in RunTasks(1) : \E u \in RunTasks(2) :
          /\ runs[1].tpc[t] = "accepted"
          /\ runs[2].tpc[u] = "accepted"
          /\ runs[2].attempts[u] = 1
          /\ runs[1].norm[t] = runs[2].norm[u]
          /\ runs[1].norm[t] \in runs[1].seen_texts \cap runs[2].seen_texts

\* C28: when the question has a positive_marking that is not negative and the
\* record of a response has a score, the score is a number between 0 and the
\* positive_marking, whatever the question type and whatever raw score the
\* remote evaluator or the heuristic gave.
C28_ScoreWithinMarking ==
    \A i \in DOMAIN results_out :
        LET pm == results_out[i].positive_marking
            score == results_out[i].score
        IN (pm # NoneV /\ pm.milli >= 0 /\ score # NoneV) =>
              /\ score.t \in {"int", "float"}
              /\ 0 <= PyFloat(score).milli
              /\ PyFloat(score).milli <= pm.milli

NoKeywordResolved(i) ==
    /\ HeuristicRan(i)
    /\ loop_locals[i].heuristic.items = <<>>
    /\ ~Truthy(KeywordFields(PyOr(PyGet(question_meta,
                                        PyStr(PyGet(data.responses[i], K_question_id))),
                                  DictV(<<>>))).kws)

\* C30: when no expected keyword can be resolved for an audio or video
\* response, none of 1 keywords counts as found, the score of the evaluation
\* is 0 for audio and 0.2 * time_score (0 without a time score) for video,
\* is_correct is false, and the feedback reports 0 of 1 keywords found and not
\* that all expected keywords are present.
C30_NoKeywordsScoreNothing ==
    \A i \in DOMAIN loop_locals :
        NoKeywordResolved(i) =>
            LET h == loop_locals[i].heuristic
                e == loop_locals[i].evaluation
            IN /\ h.matches = 0 /\ h.total = 1
               /\ PyGet(e, K_score) =
                     (IF TypeOf(i) = Str(T_audio) \/ ~h.time_score.has THEN FloatV(0)
                      ELSE FloatV(RoundDiv(200 * h.time_score.num, h.time_score.den)))
               /\ PyGet(e, K_is_correct) = BoolV(FALSE)
               /\ PyGet(e, K_feedback) = Str(F_found \o <<"0", "/", "1">> \o F_keywords_missing)
               /\ i \in DOMAIN results_out =>
                     /\ results_out[i].is_correct = BoolV(FALSE)
                     /\ results_out[i].feedback = PyGet(e, K_feedback)

====
